---- MODULE Spec2Model ----
(***************************************************************************)
(* A model of the boom text reporting engine (boom/report.py): the         *)
(* construction of a BoomReport from a field catalog, a field-selection    *)
(* string and a sort-key string, the row builder report_object, and        *)
(* report_output with its width resolution, sorting and rendering.         *)
(*                                                                         *)
(* Conventions.  A Python str is a sequence of one-character strings.      *)
(* Python list indices are kept 0-based as in the source (field_num,       *)
(* sort_posn): At(s, i) reads s[i].  None is modelled by a flag or by a    *)
(* value of the same shape that the code never reads.  A call that raises  *)
(* leaves the name of the exception in the field exc of the result.        *)
(***************************************************************************)
EXTENDS Integers, Sequences, FiniteSets, TLC

\* one report: its construction and the calls made on it
VARIABLES pc, args, br, hist, submitted
\* the object types that a caller constructs for its registry
VARIABLES types, type_call
\* the boot entries of the loader directory and the last command API call
VARIABLES entries, ret
\* the Python objects of two reports built from one catalog, the report on
\* which the last call was made and the number of calls made
VARIABLES heap, acting, ncalls

reportVars == <<pc, args, br, hist, submitted>>
typeVars == <<types, type_call>>
entryVars == <<entries, ret>>
shareVars == <<heap, acting, ncalls>>
vars == <<reportVars, typeVars, entryVars, shareVars>>

(***************************************************************************)
(* Bounds of the model.                                                    *)
(***************************************************************************)
\* the number of report_object / report_output calls made on one report
MaxCalls == 3
\* the number of object types in a caller's registry
MaxTypes == 3
\* the number of boot entries in the loader directory
MaxEntries == 3
\* the number of calls made on the two reports that share a catalog
MaxShared == 3

(***************************************************************************)
(* Python built-ins used by the source.                                    *)
(***************************************************************************)
At(s, i) == s[i + 1]

Max(a, b) == IF a > b THEN a ELSE b

\* the characters the model's strings are made of, in code point order
Alphabet == <<" ", "'", "+", ",", "-", "0", "1", "2", "3", "4", "5", "6", "7",
              "8", "9", "=", "H", "N", "P", "S", "T", "X", "a", "b", "c",
              "e", "h", "l", "m", "n", "p", "s", "t", "u", "x">>

ord(c) == CHOOSE i \in 1..Len(Alphabet) : Alphabet[i] = c

\* str.upper() on the letters of the alphabet
Upper(c) ==
  CASE c = "n" -> "N" [] c = "s" -> "S" [] c = "t" -> "T" [] c = "x" -> "X"
    [] c = "h" -> "H" [] c = "p" -> "P" [] OTHER -> c

upper(s) == [i \in 1..Len(s) |-> Upper(s[i])]

\* s[:n]
Prefix(s, n) == SubSeq(s, 1, IF n < Len(s) THEN n ELSE Len(s))

\* n spaces
Spaces(n) == [i \in 1..n |-> " "]

\* "%-*.*s" % (w, w, s): cut to w characters, padded on the right to w
FmtLeft(w, s) == Prefix(s, w) \o Spaces(w - Len(Prefix(s, w)))

\* "%*.*s" % (w, w, s): cut to w characters, padded on the left to w
FmtRight(w, s) == Spaces(w - Len(Prefix(s, w))) \o Prefix(s, w)

\* a < b for two str values (lexicographic, by code point)
RECURSIVE StrLess(_, _)
StrLess(a, b) ==
  IF b = <<>> THEN FALSE
  ELSE IF a = <<>> THEN TRUE
  ELSE IF Head(a) = Head(b) THEN StrLess(Tail(a), Tail(b))
  ELSE ord(Head(a)) < ord(Head(b))

Digit == <<"0", "1", "2", "3", "4", "5", "6", "7", "8", "9">>

RECURSIVE Digits(_)
Digits(n) ==
  IF n < 10 THEN <<Digit[n + 1]>>
  ELSE Digits(n \div 10) \o <<Digit[(n % 10) + 1]>>

\* str(n) for an int
str(n) == IF n < 0 THEN <<"-">> \o Digits(0 - n) ELSE Digits(n)

\* s.split(','): the tokens between the commas, the empty ones included
RECURSIVE SplitFrom(_, _, _)
SplitFrom(s, i, cur) ==
  IF i > Len(s) THEN <<cur>>
  ELSE IF s[i] = "," THEN <<cur>> \o SplitFrom(s, i + 1, <<>>)
  ELSE SplitFrom(s, i + 1, Append(cur, s[i]))

split(s) == SplitFrom(s, 1, <<>>)

\* ",".join(words)
RECURSIVE join(_)
join(words) ==
  IF words = <<>> THEN <<>>
  ELSE IF Len(words) = 1 THEN words[1]
  ELSE words[1] \o <<",">> \o join(Tail(words))

\* A Python int used as a bit mask is the set of the positions of its set
\* bits: 1 is {0}, 2 is {1}, 3 is {0, 1}, 0x80000000 is {31}.
RECURSIVE BitsFrom(_, _)
BitsFrom(n, pos) ==
  IF n = 0 THEN {}
  ELSE (IF n % 2 = 1 THEN {pos} ELSE {}) \cup BitsFrom(n \div 2, pos + 1)

Bits(n) == BitsFrom(n, 0)

\* a | b
BitOr(a, b) == a \cup b

(***************************************************************************)
(* Module constants of report.py.                                          *)
(***************************************************************************)
REP_NUM == "num"
REP_STR == "str"
REP_SHA == "sha"
_default_width == 8
ALIGN_LEFT == "left"
ALIGN_RIGHT == "right"
ASCENDING == "ascending"
DESCENDING == "descending"
STANDARD_QUOTE == "'"
STANDARD_PAIR == "="
MIN_SHA_WIDTH == 7
\* 0x80000000
BR_SPECIAL == {31}

\* BoomReportObjType(objtype, desc, prefix, data_fn); data_fn names the
\* attribute of the reported object that the type's fields read
BoomReportObjType(objtype, desc, prefix, data_fn) ==
  [objtype |-> objtype, desc |-> desc, prefix |-> prefix, data_fn |-> data_fn]

\* BoomFieldType(objtype, name, head, desc, width, dtype, report_fn): the
\* alignment defaults by datatype, a width of 0 falls back to the default
BoomFieldType(objtype, name, head, desc, width, dtype, report_fn) ==
  [objtype |-> objtype, name |-> name, head |-> head, desc |-> desc,
   dtype |-> dtype, report_fn |-> report_fn,
   align |-> IF dtype = REP_NUM THEN ALIGN_RIGHT ELSE ALIGN_LEFT,
   width |-> IF width # 0 THEN width ELSE _default_width]

_special_field_help_name == <<"h", "e", "l", "p">>

_implicit_types ==
  <<BoomReportObjType(BR_SPECIAL, "Special", <<"s", "p", "e", "c", "_">>, "none")>>

_implicit_fields ==
  <<BoomFieldType(BR_SPECIAL, _special_field_help_name, <<"H", "e", "l", "p">>,
                  "Show help", 8, REP_STR, "none")>>

(***************************************************************************)
(* The caller's registry and catalog: two object types and three fields,   *)
(* one of each datatype, after the catalogs of boom/command.py.            *)
(***************************************************************************)
BR_ENTRY == Bits(1)
BR_PROFILE == Bits(2)

_report_obj_types ==
  <<BoomReportObjType(BR_ENTRY, "Boot loader entries", <<"e", "_">>, "be"),
    BoomReportObjType(BR_PROFILE, "OS profiles", <<"p", "_">>, "osp")>>

\* the catalog passed as `fields`: a numeric, a hash and a string field
_entry_fields ==
  <<BoomFieldType(BR_ENTRY, <<"n">>, <<"N", "u", "m">>, "Number", 1,
                  REP_NUM, "report_num"),
    BoomFieldType(BR_ENTRY, <<"s">>, <<"S", "h", "a">>, "Hash", 2,
                  REP_SHA, "report_sha"),
    BoomFieldType(BR_PROFILE, <<"t">>, <<"T", "x", "t">>, "Text", 1,
                  REP_STR, "report_str")>>

\* self._types and self._fields of the report under construction
_types == _report_obj_types
_fields == _entry_fields

(***************************************************************************)
(* BoomReport: construction.  m is the report object together with what    *)
(* its calls write: exc (the exception the call raised, "" for none),      *)
(* stdout (the lines printed) and report_file (the lines written to        *)
(* opts.report_file).                                                      *)
(***************************************************************************)
Raise(m, e) == [m EXCEPT !.exc = e]

\* a line printed to stdout: what it shows (k) and of which field
Line(k, name, desc, dtype) == [k |-> k, name |-> name, desc |-> desc, dtype |-> dtype]

\* the lines 426-445 print for the catalog flds: a heading and a banner
\* before each group of fields of one object type, then one line per field
\* (name - description [datatype])
RECURSIVE display_lines(_, _, _)
display_lines(flds, last_desc, display_field_types) ==
  IF flds = <<>> THEN <<>>
  ELSE LET f == Head(flds)
           ts == SelectSeq(_implicit_types \o _types,
                           LAMBDA t : t.objtype = f.objtype)
           desc == IF ts # <<>> THEN ts[1].desc ELSE ""
           group == IF desc # last_desc
                    THEN (IF last_desc # ""
                          THEN <<Line("blank", <<>>, "", "")>> ELSE <<>>)
                         \o <<Line("heading", <<>>, desc, ""),
                              Line("banner", <<>>, desc, "")>>
                    ELSE <<>>
           line == Line("field", f.name, f.desc,
                        IF display_field_types THEN f.dtype ELSE "")
       IN group \o <<line>>
          \o display_lines(Tail(flds), desc, display_field_types)

\* BoomReport.__display_fields: line 425 reads the name `fields`, which is
\* bound neither in the method nor in the module, before anything is printed
__display_fields(m, display_field_types) == Raise(m, "NameError")

\* BoomReport.__find_type
__find_type(report_type) ==
  LET ts == SelectSeq(_implicit_types \o _types,
                      LAMBDA t : t.objtype = report_type)
  IN IF ts # <<>> THEN [ok |-> TRUE, t |-> ts[1]]
     ELSE [ok |-> FALSE, t |-> _implicit_types[1]]

\* BoomReport.__copy_field: the descriptor is read from self._fields, for an
\* implicit field too
__copy_field(field_num, implicit) ==
  [field_num |-> field_num,
   initial_width |-> At(_fields, field_num).width,
   width |-> At(_fields, field_num).width,
   objtype |-> __find_type(At(_fields, field_num).objtype).t,
   dtype |-> At(_fields, field_num).dtype,
   align |-> At(_fields, field_num).align,
   hidden |-> FALSE, implicit |-> implicit,
   sort_key |-> FALSE, sort_dir |-> "", sort_posn |-> -1]

\* __add_field as it would be if a field already in the list were not added
\* again
__add_field_once(m, field_num, implicit) ==
  IF \E i \in 1..Len(m._field_properties) :
       /\ m._field_properties[i].field_num = field_num
       /\ m._field_properties[i].implicit = implicit
  THEN m
  ELSE [m EXCEPT !._field_properties =
          Append(@, __copy_field(field_num, implicit))]

\* __add_field as it would be if every field took the branch of the hidden
\* ones and were put at the front of the list
__add_field_front(m, field_num, implicit) ==
  [m EXCEPT !._field_properties = <<__copy_field(field_num, implicit)>> \o @]

\* BoomReport.__add_field; it returns None
__add_field(m, field_num, implicit) ==
  IF ~ __find_type(At(_fields, field_num).objtype).ok
  THEN Raise(m, "ValueError")
  ELSE LET fp == __copy_field(field_num, implicit)
       IN IF fp.hidden
          THEN [m EXCEPT !._field_properties = <<fp>> \o @]
          ELSE [m EXCEPT !._field_properties = Append(@, fp)]

\* the first index of a field named field_name in flds, -1 if there is none
IndexOfName(flds, field_name) ==
  IF \E i \in 1..Len(flds) : flds[i].name = field_name
  THEN (CHOOSE i \in 1..Len(flds) :
          /\ flds[i].name = field_name
          /\ \A j \in 1..(i - 1) : flds[j].name # field_name) - 1
  ELSE -1

\* BoomReport.__get_field: the implicit fields are searched first
__get_field(field_name) ==
  IF IndexOfName(_implicit_fields, field_name) >= 0
  THEN [ok |-> TRUE, f |-> IndexOfName(_implicit_fields, field_name),
        implicit |-> TRUE]
  ELSE IF IndexOfName(_fields, field_name) >= 0
  THEN [ok |-> TRUE, f |-> IndexOfName(_fields, field_name), implicit |-> FALSE]
  ELSE [ok |-> FALSE, f |-> -1, implicit |-> FALSE]

\* __field_match as it would be if the pass that is to update the types only
\* added the field as well
__field_match_eager(m, field_name, type_only) ==
  LET g == __get_field(field_name)
  IN IF ~ g.ok THEN Raise(m, "ValueError")
     ELSE IF type_only
     THEN __add_field([m EXCEPT !.report_types =
                         BitOr(@, IF g.implicit
                                  THEN At(_implicit_fields, g.f).objtype
                                  ELSE At(_fields, g.f).objtype)],
                      g.f, g.implicit)
     ELSE __add_field(m, g.f, g.implicit)

\* BoomReport.__field_match
__field_match(m, field_name, type_only) ==
  LET g == __get_field(field_name)
  IN IF ~ g.ok THEN Raise(m, "ValueError")
     ELSE IF type_only
     THEN [m EXCEPT !.report_types =
             BitOr(@, IF g.implicit THEN At(_implicit_fields, g.f).objtype
                      ELSE At(_fields, g.f).objtype)]
     ELSE __add_field(m, g.f, g.implicit)

\* the handler of lines 561-564 and 658-661
UnrecognisedField(m, word) ==
  LET d == __display_fields(Raise(m, ""), TRUE)
  IN IF d.exc # "" THEN d
     ELSE [d EXCEPT !.stdout = Append(@, Line("unrecognised", word, "", "")),
                    !.exc = "ValueError"]

\* ParseFieldWords as it would be without the test that skips an empty word
RECURSIVE ParseFieldWordsNoSkip(_, _, _)
ParseFieldWordsNoSkip(m, words, type_only) ==
  IF words = <<>> THEN m
  ELSE LET r == __field_match(m, Head(words), type_only)
       IN IF r.exc = "ValueError" THEN UnrecognisedField(r, Head(words))
          ELSE IF r.exc # "" THEN r
          ELSE ParseFieldWordsNoSkip(r, Tail(words), type_only)

\* the loop of BoomReport.__parse_fields over the words of field_format
RECURSIVE ParseFieldWords(_, _, _)
ParseFieldWords(m, words, type_only) ==
  IF words = <<>> THEN m
  ELSE IF Head(words) = <<>> THEN ParseFieldWords(m, Tail(words), type_only)
  ELSE LET r == __field_match(m, Head(words), type_only)
       IN IF r.exc = "ValueError" THEN UnrecognisedField(r, Head(words))
          ELSE IF r.exc # "" THEN r
          ELSE ParseFieldWords(r, Tail(words), type_only)

\* BoomReport.__parse_fields
__parse_fields(m, field_format, type_only) ==
  ParseFieldWords(m, split(field_format), type_only)

\* the last entry of the field list for (field_num, implicit), 0 if none
FoundProps(m, field_num, implicit) ==
  LET hits == {i \in 1..Len(m._field_properties) :
                 /\ m._field_properties[i].implicit = implicit
                 /\ m._field_properties[i].field_num = field_num}
  IN IF hits = {} THEN 0 ELSE CHOOSE i \in hits : \A j \in hits : j <= i

\* BoomReport.__add_sort_key
__add_sort_key(m, field_num, sort, implicit, type_only) ==
  LET flds == IF implicit THEN _implicit_fields ELSE _fields
      found == FoundProps(m, field_num, implicit)
  IN IF found = 0
     THEN IF type_only
          THEN [m EXCEPT !.report_types = BitOr(@, At(flds, field_num).objtype)]
          ELSE \* found = self.__add_field(...) is None: found.sort_key raises
               LET a == __add_field(m, field_num, implicit)
               IN IF a.exc # "" THEN a ELSE Raise(a, "AttributeError")
     ELSE \* a duplicate is logged, and the key is then set all the same
          [m EXCEPT !._field_properties[found].sort_key = TRUE,
                    !._field_properties[found].sort_dir = sort,
                    !._field_properties[found].sort_posn = m._keys_count,
                    !._keys_count = @ + 1]

\* __key_match as it would be without the branch for a leading '+', which
\* then stays part of the name
__key_match_no_plus(m, key_name, type_only) ==
  LET signed == key_name # <<>> /\ Head(key_name) = "-"
      sort_dir == IF signed THEN DESCENDING ELSE ASCENDING
      name == IF signed THEN Tail(key_name) ELSE key_name
  IN IF key_name = <<>> THEN Raise(m, "ValueError")
     ELSE IF IndexOfName(_implicit_fields, name) >= 0
     THEN __add_sort_key(m, IndexOfName(_implicit_fields, name), sort_dir,
                         TRUE, type_only)
     ELSE IF IndexOfName(_fields, name) >= 0
     THEN __add_sort_key(m, IndexOfName(_fields, name), sort_dir,
                         FALSE, type_only)
     ELSE Raise(m, "ValueError")

\* BoomReport.__key_match
__key_match(m, key_name, type_only) ==
  LET signed == key_name # <<>> /\ Head(key_name) \in {"+", "-"}
      sort_dir == IF key_name # <<>> /\ Head(key_name) = "-"
                  THEN DESCENDING ELSE ASCENDING
      name == IF signed THEN Tail(key_name) ELSE key_name
  IN IF key_name = <<>> THEN Raise(m, "ValueError")
     ELSE IF IndexOfName(_implicit_fields, name) >= 0
     THEN __add_sort_key(m, IndexOfName(_implicit_fields, name), sort_dir,
                         TRUE, type_only)
     ELSE IF IndexOfName(_fields, name) >= 0
     THEN __add_sort_key(m, IndexOfName(_fields, name), sort_dir,
                         FALSE, type_only)
     ELSE Raise(m, "ValueError")

\* the loop of BoomReport.__parse_keys over the words of keys
RECURSIVE ParseKeyWords(_, _, _)
ParseKeyWords(m, words, type_only) ==
  IF words = <<>> THEN m
  ELSE IF Head(words) = <<>> THEN ParseKeyWords(m, Tail(words), type_only)
  ELSE LET r == __key_match(m, Head(words), type_only)
       IN IF r.exc = "ValueError" THEN UnrecognisedField(r, Head(words))
          ELSE IF r.exc # "" THEN r
          ELSE ParseKeyWords(r, Tail(words), type_only)

\* BoomReport.__parse_keys; keys is "" where the caller passes None or ""
__parse_keys(m, keys, type_only) ==
  IF keys = <<>> THEN m ELSE ParseKeyWords(m, split(keys), type_only)

\* BoomReport.__help_requested
__help_requested(m) ==
  \E i \in 1..Len(m._field_properties) :
    /\ m._field_properties[i].implicit
    /\ At(_implicit_fields, m._field_properties[i].field_num).name
         = _special_field_help_name

\* one pass of lines 698-704: the fields, then the keys unless that raised
ParsePass(m, output_fields, sort_keys, type_only) ==
  CHOOSE r \in {IF p.exc # "" THEN p ELSE __parse_keys(p, sort_keys, type_only) :
                  p \in {__parse_fields(m, output_fields, type_only)}} : TRUE

\* lines 706-709
HelpCheck(m) ==
  IF ~ __help_requested(m) THEN m
  ELSE CHOOSE r \in {IF d.exc # "" THEN d
                     ELSE [d EXCEPT !.stdout = Append(@, Line("blank", <<>>, "", ""))] :
                     d \in {__display_fields([m EXCEPT !._already_reported = TRUE],
                                             TRUE)}} : TRUE

\* the class attributes of BoomReport and the empty lists of lines 688-689,
\* with nothing printed or written yet
BoomReport(opts) ==
  [_field_properties |-> <<>>, _rows |-> <<>>, _keys_count |-> 0,
   report_types |-> Bits(0), _header_written |-> FALSE, _field_calc_needed |-> TRUE,
   _sort_required |-> FALSE, _already_reported |-> FALSE, opts |-> opts,
   exc |-> "", stdout |-> <<>>, report_file |-> <<>>]

\* BoomReport.__init__(types, fields, output_fields, opts, sort_keys, private)
__init__(output_fields, opts, sort_keys) ==
  LET self == [BoomReport(opts) EXCEPT !._sort_required = opts.buffered]
      of == IF output_fields = <<>>
            THEN join([i \in 1..Len(_fields) |-> _fields[i].name])
            ELSE output_fields
  IN CHOOSE r \in
       {IF second.exc # "" THEN second ELSE HelpCheck(second) :
          second \in {IF first.exc # "" THEN first
                      ELSE ParsePass(first, of, sort_keys, FALSE) :
                      first \in {ParsePass(self, of, sort_keys, TRUE)}}} : TRUE

(***************************************************************************)
(* BoomField and the row builder.  A value is [kind, n, s]: an int n       *)
(* (kind "int"), a str s (kind "str") or None (kind "none").               *)
(***************************************************************************)
IntVal(n) == [kind |-> "int", n |-> n, s |-> <<>>]
StrVal(s) == [kind |-> "str", n |-> 0, s |-> s]
NoneVal == [kind |-> "none", n |-> 0, s |-> <<>>]

\* Python truth of a value
Truthy(v) ==
  CASE v.kind = "int" -> v.n # 0
    [] v.kind = "str" -> v.s # <<>>
    [] OTHER -> FALSE

\* BoomField.set_value: a falsy sort_value is replaced by the report string
set_value(report_string, sort_value) ==
  IF report_string.kind = "none"
  THEN [exc |-> "ValueError", report_string |-> <<>>, sort_value |-> NoneVal]
  ELSE [exc |-> "", report_string |-> report_string.s,
        sort_value |-> IF Truthy(sort_value) THEN sort_value ELSE report_string]

\* BoomField.report_str
report_str(value) == set_value(value, value)

\* BoomField.report_sha
report_sha(value) == set_value(value, value)

\* BoomField.report_num: the report string is str(value)
report_num(value) ==
  set_value(StrVal(IF value.kind = "int" THEN str(value.n)
                   ELSE IF value.kind = "str" THEN value.s
                   ELSE <<"N", "o", "n", "e">>),
            value)

\* the report_fn of a catalog field applied to the data of its object type
report_fn(f, d) ==
  CASE f.report_fn = "report_num" -> report_num(d.n)
    [] f.report_fn = "report_sha" -> report_sha(d.s)
    [] f.report_fn = "report_str" -> report_str(d.t)
    [] OTHER -> set_value(NoneVal, NoneVal)

\* fp.objtype.data_fn(obj)
data_fn(t, obj) ==
  CASE t.data_fn = "be" -> obj.be
    [] t.data_fn = "osp" -> obj.osp
    [] OTHER -> [none |-> TRUE, n |-> NoneVal, s |-> NoneVal, t |-> NoneVal]

(***************************************************************************)
(* Width resolution.                                                       *)
(***************************************************************************)
\* boom._find_minimum_sha_prefix(shas, min_prefix): the least length from
\* min_prefix on at which the prefixes of the values of shas are pairwise
\* distinct, and the full length if there is none
RECURSIVE _find_minimum_sha_prefix(_, _)
_find_minimum_sha_prefix(shas, min_prefix) ==
  LET full == CHOOSE n \in {Len(s) : s \in shas} :
                \A s \in shas : Len(s) <= n
  IN IF \A a, b \in shas : a # b => Prefix(a, min_prefix) # Prefix(b, min_prefix)
     THEN min_prefix
     ELSE IF min_prefix >= full THEN full
     ELSE _find_minimum_sha_prefix(shas, min_prefix + 1)

\* the columns of the rows whose catalog field is hash-typed
ShaColumns(m) ==
  {i \in 1..Len(m._field_properties) :
     At(_fields, m._field_properties[i].field_num).dtype = REP_SHA}

\* __recalculate_sha_width as it would be if it cut the report strings of a
\* hash column to the width it resolves for the column
__recalculate_sha_width_cut(m) ==
  LET fps == m._field_properties
      seen == IF m._rows = <<>> THEN {} ELSE ShaColumns(m)
      shas(i) == {m._rows[r]._fields[i].report_string : r \in 1..Len(m._rows)}
      resolved(i) == _find_minimum_sha_prefix(shas(i),
                                              Max(MIN_SHA_WIDTH, fps[i].width))
  IN [m EXCEPT
        !._field_properties =
           [i \in 1..Len(fps) |->
              IF i \in seen THEN [fps[i] EXCEPT !.width = resolved(i)]
              ELSE fps[i]],
        !._rows =
           [r \in 1..Len(m._rows) |->
              [m._rows[r] EXCEPT !._fields =
                 [i \in 1..Len(m._rows[r]._fields) |->
                    IF i \in seen
                    THEN [m._rows[r]._fields[i] EXCEPT !.report_string =
                            Prefix(m._rows[r]._fields[i].report_string,
                                   resolved(i))]
                    ELSE m._rows[r]._fields[i]]]]]

\* BoomReport.__recalculate_sha_width: the values are collected per field_num,
\* and the width is set on the properties of the first field met with it
__recalculate_sha_width(m) ==
  LET fps == m._field_properties
      seen == IF m._rows = <<>> THEN {} ELSE ShaColumns(m)
      first(i) == \A j \in seen : fps[j].field_num = fps[i].field_num => i <= j
      shas(i) == {m._rows[r]._fields[j].report_string :
                    r \in 1..Len(m._rows),
                    j \in {c \in seen : fps[c].field_num = fps[i].field_num}}
  IN [m EXCEPT !._field_properties =
        [i \in 1..Len(fps) |->
           IF i \in seen /\ first(i)
           THEN [fps[i] EXCEPT !.width =
                   _find_minimum_sha_prefix(shas(i),
                                            Max(MIN_SHA_WIDTH, fps[i].width))]
           ELSE fps[i]]]

\* the greatest length of a report string in column i, 0 without rows
LongestIn(m, i) ==
  LET lens == {Len(m._rows[r]._fields[i].report_string) : r \in 1..Len(m._rows)}
  IN IF lens = {} THEN 0 ELSE CHOOSE n \in lens : \A k \in lens : k <= n

\* __recalculate_fields as it would be if it indexed the sort fields and left
\* every width as it is
__recalculate_fields_fixed(m) ==
  LET fps == m._field_properties
      key(p) == {i \in 1..Len(fps) : fps[i].sort_key /\ fps[i].sort_posn = p}
  IN [m EXCEPT
        !._rows = [r \in 1..Len(m._rows) |->
           IF m._sort_required
           THEN [m._rows[r] EXCEPT !._sort_fields =
                   [p \in 1..Len(@) |->
                      IF key(p - 1) # {} THEN CHOOSE i \in key(p - 1) : TRUE
                      ELSE @[p]]]
           ELSE m._rows[r]]]

\* BoomReport.__recalculate_fields: the sort fields of each row are indexed
\* by sort position, and each field that is not hash-typed grows to its
\* longest report string
__recalculate_fields(m) ==
  LET fps == m._field_properties
      key(p) == {i \in 1..Len(fps) : fps[i].sort_key /\ fps[i].sort_posn = p}
  IN [m EXCEPT
        !._rows = [r \in 1..Len(m._rows) |->
           IF m._sort_required
           THEN [m._rows[r] EXCEPT !._sort_fields =
                   [p \in 1..Len(@) |->
                      IF key(p - 1) # {} THEN CHOOSE i \in key(p - 1) : TRUE
                      ELSE @[p]]]
           ELSE m._rows[r]],
        !._field_properties = [i \in 1..Len(fps) |->
           IF At(_fields, fps[i].field_num).dtype = REP_SHA THEN fps[i]
           ELSE [fps[i] EXCEPT !.width = Max(@, LongestIn(m, i))]]]

(***************************************************************************)
(* Sorting.  The interpreter is Python 3: == between an int and a str is   *)
(* False, and ordering one against the other raises TypeError.             *)
(***************************************************************************)
ValEq(a, b) == a.kind = b.kind /\ a.n = b.n /\ a.s = b.s

\* a > b; only read for two values of the same kind
ValGreater(a, b) == IF a.kind = "int" THEN a.n > b.n ELSE StrLess(b.s, a.s)

\* _row_cmp from key cnt on: [exc, v], v the cmp-style result
RECURSIVE RowCmpFrom(_, _, _, _)
RowCmpFrom(m, row_a, row_b, cnt) ==
  IF cnt >= m._keys_count THEN [exc |-> "", v |-> 0]
  ELSE LET sfa == At(row_a._sort_fields, cnt)
           sfb == At(row_b._sort_fields, cnt)
       IN IF sfa = -1 \/ sfb = -1
          THEN \* the slot still holds the int -1, which has no _props
               [exc |-> "AttributeError", v |-> 0]
          ELSE LET props == m._field_properties[sfa]
                   a == row_a._fields[sfa].sort_value
                   b == row_b._fields[sfb].sort_value
               IN IF ValEq(a, b) THEN RowCmpFrom(m, row_a, row_b, cnt + 1)
                  ELSE IF a.kind # b.kind THEN [exc |-> "TypeError", v |-> 0]
                  ELSE IF props.sort_dir = ASCENDING
                  THEN [exc |-> "", v |-> IF ValGreater(a, b) THEN 1 ELSE -1]
                  ELSE [exc |-> "", v |-> IF ValGreater(b, a) THEN 1 ELSE -1]

\* BoomReport.__row_key_fn._row_cmp
_row_cmp(m, row_a, row_b) == RowCmpFrom(m, row_a, row_b, 0)

\* __RowKey.__lt__
RowLess(m, row_a, row_b) == _row_cmp(m, row_a, row_b).v < 0

\* InsertRow as an unstable sort would do it: row goes before the rows it
\* compares equal to
RECURSIVE InsertRowBeforeEqual(_, _, _)
InsertRowBeforeEqual(m, rows, row) ==
  IF rows = <<>> THEN <<row>>
  ELSE IF ~ RowLess(m, Head(rows), row) THEN <<row>> \o rows
  ELSE <<Head(rows)>> \o InsertRowBeforeEqual(m, Tail(rows), row)

\* row put into the sorted list rows behind every row that is not greater
RECURSIVE InsertRow(_, _, _)
InsertRow(m, rows, row) ==
  IF rows = <<>> THEN <<row>>
  ELSE IF RowLess(m, row, Head(rows)) THEN <<row>> \o rows
  ELSE <<Head(rows)>> \o InsertRow(m, Tail(rows), row)

\* list.sort(key=...) where no comparison raises: the stable order
RECURSIVE StableSort(_, _)
StableSort(m, rows) ==
  IF rows = <<>> THEN <<>>
  ELSE InsertRow(m, StableSort(m, SubSeq(rows, 1, Len(rows) - 1)),
                 rows[Len(rows)])

\* the exceptions the comparisons of two distinct rows raise
SortErrors(m) ==
  {_row_cmp(m, m._rows[ij[1]], m._rows[ij[2]]).exc :
     ij \in {p \in (1..Len(m._rows)) \X (1..Len(m._rows)) : p[1] # p[2]}} \ {""}

\* BoomReport._sort_rows: the set of results.  A comparison that raises ends
\* the sort with that exception, the rows left in the order reached so far
_sort_rows(m) ==
  IF SortErrors(m) = {}
  THEN {[m EXCEPT !._rows = StableSort(m, m._rows)]}
  ELSE {[m EXCEPT !._rows = [i \in 1..Len(m._rows) |-> m._rows[p[i]]],
                  !.exc = e] :
          p \in Permutations(1..Len(m._rows)), e \in SortErrors(m)}

(***************************************************************************)
(* Rendering.  A line written to report_file is [kind, id, text]: text is  *)
(* the line without its newline; kind ("header", "row") and id (the row's  *)
(* number of submission, 0 for the header) record what the line renders.   *)
(***************************************************************************)
\* the loop of BoomReport.__report_headings over the field properties
RECURSIVE HeadingsFrom(_, _)
HeadingsFrom(m, i) ==
  LET props == m._field_properties
  IN IF i > Len(props) THEN <<>>
     ELSE IF props[i].hidden THEN HeadingsFrom(m, i + 1)
     ELSE (IF m.opts.aligned
           THEN FmtLeft(props[i].width, At(_fields, props[i].field_num).head)
           ELSE At(_fields, props[i].field_num).head)
          \o (IF i # Len(props) THEN m.opts.separator ELSE <<>>)
          \o HeadingsFrom(m, i + 1)

\* __report_headings as it would be without the assignment to
\* _header_written
__report_headings_unmarked(m) ==
  IF ~ m.opts.headings THEN m
  ELSE [m EXCEPT !.report_file = Append(@, [kind |-> "header", id |-> 0,
                                            text |-> HeadingsFrom(m, 1)])]

\* BoomReport.__report_headings
__report_headings(m) ==
  IF ~ m.opts.headings THEN [m EXCEPT !._header_written = TRUE]
  ELSE [m EXCEPT !._header_written = TRUE,
                 !.report_file = Append(@, [kind |-> "header", id |-> 0,
                                            text |-> HeadingsFrom(m, 1)])]

\* BoomReport._output_field
_output_field(m, field, props) ==
  LET quote == IF m.opts.unquoted THEN <<>> ELSE <<STANDARD_QUOTE>>
      prefix == IF m.opts.field_name_prefix # <<>>
                THEN m.opts.field_name_prefix
                     \o upper(At(_fields, props.field_num).name)
                     \o <<STANDARD_PAIR, STANDARD_QUOTE>>
                ELSE m.opts.field_name_prefix
      align == IF props.align # "" THEN props.align
               ELSE IF props.dtype = REP_NUM THEN ALIGN_RIGHT ELSE ALIGN_LEFT
      repstr == IF ~ m.opts.aligned THEN field.report_string
                ELSE IF align = ALIGN_LEFT
                THEN FmtLeft(props.width, field.report_string)
                ELSE FmtRight(props.width, field.report_string)
  IN prefix \o repstr \o quote

\* the loop of _output_as_columns over the fields of one row
RECURSIVE RowLineFrom(_, _, _, _)
RowLineFrom(m, row, i, do_field_delim) ==
  IF i > Len(row._fields) THEN <<>>
  ELSE IF m._field_properties[i].hidden
  THEN RowLineFrom(m, row, i + 1, do_field_delim)
  ELSE (IF do_field_delim THEN m.opts.separator ELSE <<>>)
       \o _output_field(m, row._fields[i], m._field_properties[i])
       \o RowLineFrom(m, row, i + 1, TRUE)

\* BoomReport._output_as_columns: the headings unless written, then every
\* row of self._rows
_output_as_columns(m) ==
  LET h == IF ~ m._header_written THEN __report_headings(m) ELSE m
  IN [h EXCEPT !.report_file = @ \o
        [r \in 1..Len(m._rows) |->
           [kind |-> "row", id |-> m._rows[r].id,
            text |-> RowLineFrom(h, m._rows[r], 1, FALSE)]]]

\* BoomReport._output_as_rows
_output_as_rows(m) == m

\* lines 1015-1017
Recalculate(m) ==
  IF ~ m._field_calc_needed THEN {m}
  ELSE {__recalculate_fields(w) : w \in {__recalculate_sha_width(m)}}

\* lines 1018-1023 on one result s of the sort
Output(s) ==
  IF s.exc # "" THEN s
  ELSE IF s.opts.columns_as_rows THEN _output_as_rows(s)
  ELSE _output_as_columns(s)

\* BoomReport.report_output: the set of results
report_output(m) ==
  IF m._already_reported THEN {m}
  ELSE UNION {{Output(s) : s \in IF c._sort_required THEN _sort_rows(c) ELSE {c}} :
                c \in Recalculate(m)}

\* the fields of a new row for the field properties from i on
RECURSIVE RowFieldsFrom(_, _, _)
RowFieldsFrom(m, obj, i) ==
  IF i > Len(m._field_properties) THEN [exc |-> "", fields |-> <<>>]
  ELSE LET fp == m._field_properties[i]
           data == data_fn(fp.objtype, obj)
           f == report_fn(At(_fields, fp.field_num), data)
           rest == RowFieldsFrom(m, obj, i + 1)
       IN IF data.none \/ f.exc # ""
          THEN [exc |-> "ValueError", fields |-> <<>>]
          ELSE IF rest.exc # "" THEN rest
          ELSE [exc |-> "",
                fields |-> <<[report_string |-> f.report_string,
                              sort_value |-> f.sort_value]>> \o rest.fields]

\* report_object as it would be if the row were appended to the buffer
\* before its fields are built
report_object_row_first(m, obj) ==
  IF obj.none THEN {Raise(m, "ValueError")}
  ELSE IF m._already_reported THEN {m}
  ELSE LET built == RowFieldsFrom(m, obj, 1)
           row == [id |-> Len(m._rows) + 1,
                   _fields |-> built.fields,
                   _sort_fields |-> IF m._sort_required
                                    THEN [p \in 1..m._keys_count |-> -1]
                                    ELSE <<>>]
           appended == [m EXCEPT !._rows = Append(@, row)]
       IN IF built.exc # "" THEN {Raise(appended, built.exc)}
          ELSE IF ~ m.opts.buffered
          THEN UNION {report_output(a) : a \in {appended}}
          ELSE {appended}

\* report_object as it would be if the fields of a row were put in front of
\* one another and not appended, the row holding them in reverse order
report_object_reversed(m, obj) ==
  IF obj.none THEN {Raise(m, "ValueError")}
  ELSE IF m._already_reported THEN {m}
  ELSE LET built == RowFieldsFrom(m, obj, 1)
           row == [id |-> Len(m._rows) + 1,
                   _fields |-> [i \in 1..Len(built.fields) |->
                                  built.fields[Len(built.fields) + 1 - i]],
                   _sort_fields |-> IF m._sort_required
                                    THEN [p \in 1..m._keys_count |-> -1]
                                    ELSE <<>>]
           appended == [m EXCEPT !._rows = Append(@, row)]
       IN IF built.exc # "" THEN {Raise(m, built.exc)}
          ELSE IF ~ m.opts.buffered
          THEN UNION {report_output(a) : a \in {appended}}
          ELSE {appended}

\* BoomReport.report_object: the set of results
report_object(m, obj) ==
  IF obj.none THEN {Raise(m, "ValueError")}
  ELSE IF m._already_reported THEN {m}
  ELSE LET built == RowFieldsFrom(m, obj, 1)
           row == [id |-> Len(m._rows) + 1,
                   _fields |-> built.fields,
                   _sort_fields |-> IF m._sort_required
                                    THEN [p \in 1..m._keys_count |-> -1]
                                    ELSE <<>>]
           appended == [m EXCEPT !._rows = Append(@, row)]
       IN IF built.exc # "" THEN {Raise(m, built.exc)}
          ELSE IF ~ m.opts.buffered
          THEN UNION {report_output(a) : a \in {appended}}
          ELSE {appended}

(***************************************************************************)
(* The inputs of the model.                                                *)
(***************************************************************************)
\* BoomReportOpts(columns, headings, buffered, separator, field_name_prefix,
\* unquoted, aligned, report_file) with the defaults of its constructor
BoomReportOpts(headings, buffered) ==
  [headings |-> headings, buffered |-> buffered, separator |-> <<" ">>,
   field_name_prefix |-> <<>>, unquoted |-> TRUE, aligned |-> TRUE,
   columns_as_rows |-> FALSE]

\* opts with the attributes unquoted and field_name_prefix set by the caller
Quoting(opts, unquoted, field_name_prefix) ==
  [opts EXCEPT !.unquoted = unquoted, !.field_name_prefix = field_name_prefix]

\* the options: headings and buffering on and off, and every combination
\* of quoting and field-name prefix
OptsSet ==
  {BoomReportOpts(TRUE, TRUE), BoomReportOpts(FALSE, TRUE),
   BoomReportOpts(TRUE, FALSE),
   Quoting(BoomReportOpts(FALSE, TRUE), FALSE, <<>>),
   Quoting(BoomReportOpts(FALSE, TRUE), TRUE, <<"X", "_">>),
   Quoting(BoomReportOpts(FALSE, TRUE), FALSE, <<"X", "_">>)}

\* field-selection strings: the default, single and several fields, empty
\* tokens, commas only, a repeated name, the help field and an unknown name
OutputFieldsSet ==
  {<<>>,
   <<",", ",">>,
   <<"n">>,
   <<"s", ",", "n">>,
   <<"n", ",", ",", "s", ",">>,
   <<"n", ",", "s", ",", "n">>,
   <<"s", ",", "s">>,
   <<"h", "e", "l", "p">>,
   <<"n", ",", "x">>}

\* sort-key strings: none, unsigned and signed keys, empty tokens, two keys
\* in either order, a repeated key and an unknown name
SortKeysSet ==
  {<<>>,
   <<"n">>,
   <<"-", "n">>,
   <<"+", "n", ",", ",">>,
   <<"s">>,
   <<"s", ",", "-", "n">>,
   <<"-", "n", ",", "s">>,
   <<"t">>,
   <<"n", ",", "n">>,
   <<"x">>}

Sha1 == <<"a", "a", "a", "a", "a", "a", "a", "b">>
Sha2 == <<"a", "a", "a", "a", "a", "a", "a", "c">>
Sha3 == <<"a", "a", "a", "a", "a", "a", "a", "b", "b">>

NoData == [none |-> TRUE, n |-> NoneVal, s |-> NoneVal, t |-> NoneVal]
Entry(n, s) == [none |-> FALSE, n |-> IntVal(n), s |-> StrVal(s), t |-> NoneVal]
Profile(t) == [none |-> FALSE, n |-> NoneVal, s |-> NoneVal, t |-> StrVal(t)]

\* BoomReportObj(boot_entry, os_profile)
BoomReportObj(be, osp) == [none |-> FALSE, be |-> be, osp |-> osp]

None == [none |-> TRUE, be |-> NoData, osp |-> NoData]

\* the objects reported: None, and entries with and without a profile, one
\* of them with a profile whose text is the empty string
Objects ==
  {None,
   BoomReportObj(Entry(1, Sha1), Profile(<<"a">>)),
   BoomReportObj(Entry(0, Sha2), Profile(<<"b", "b">>)),
   BoomReportObj(Entry(-1, Sha3), Profile(<<>>)),
   BoomReportObj(Entry(2, Sha1), NoData)}

(***************************************************************************)
(* The state machine: a report is constructed once, and report_object and  *)
(* report_output are then called on it in any order.  hist records, for    *)
(* each call, its argument (None for report_output), the exception it      *)
(* raised and the number of lines it wrote to report_file; submitted holds *)
(* the objects whose rows were appended, the row with id i being built     *)
(* from submitted[i].                                                      *)
(***************************************************************************)
\* no object type has been constructed yet
TypesInit ==
  /\ types = <<>>
  /\ type_call = [made |-> FALSE, objtype |-> 0, desc |-> "", data_fn |-> "",
                  exc |-> ""]

\* BootParams(version, root_device, lvm_root_lv, btrfs_subvol_path,
\* btrfs_subvol_id) and BootEntry(title, machine_id, osprofile, boot_params)
\* as command.py constructs them; "" stands for None
BootParams(version, root_device, lvm_root_lv, btrfs_subvol_path, btrfs_subvol_id) ==
  [version |-> version, root_device |-> root_device,
   lvm_root_lv |-> lvm_root_lv, btrfs_subvol_path |-> btrfs_subvol_path,
   btrfs_subvol_id |-> btrfs_subvol_id]

BootEntry(title, machine_id, osprofile, boot_params) ==
  [title |-> title, machine_id |-> machine_id, version |-> boot_params.version,
   _osp |-> osprofile, bp |-> boot_params]

NoEntry == BootEntry("", "", "", BootParams("", "", "", "", ""))

\* the arguments of a command API call
CallArgs(boot_id, title, version, machine_id, root_device, lvm_root_lv, btrfs_subvol_path, btrfs_subvol_id, osprofile) ==
  [boot_id |-> boot_id, title |-> title, version |-> version,
   machine_id |-> machine_id, root_device |-> root_device,
   lvm_root_lv |-> lvm_root_lv, btrfs_subvol_path |-> btrfs_subvol_path,
   btrfs_subvol_id |-> btrfs_subvol_id, osprofile |-> osprofile]

\* the loader directory is empty and no call has been made
EntriesInit ==
  /\ entries = <<>>
  /\ ret = [op |-> "", exc |-> "", be |-> NoEntry, nr |-> 0,
            args |-> CallArgs(<<>>, "", "", "", "", "", "", "", "")]

(***************************************************************************)
(* Two reports built from one catalog, as Python objects.  heap holds the  *)
(* attributes of the class BoomReport, the caller's catalog and registry,  *)
(* the attributes bound on each of the two instances, every list object    *)
(* and every BoomFieldProperties object.  A reference to a list or to a    *)
(* properties object is its index in heap.lists or heap.props, 0 is None.  *)
(* An attribute of an instance is <<>> while it is not bound on the        *)
(* instance and <<v>> once an assignment has bound it to v.                *)
(***************************************************************************)
Instances == {"A", "B"}

\* the class attributes of BoomReport that its methods read and assign
ClassAttributes ==
  [_rows |-> 0, _field_properties |-> 0, _keys_count |-> 0,
   report_types |-> Bits(0), _header_written |-> FALSE,
   _field_calc_needed |-> TRUE, _sort_required |-> FALSE,
   _already_reported |-> FALSE]

\* an object of the class before __init__ has run; report_file holds what
\* has been written to the file of the report's own options
NoAttributes ==
  [made |-> FALSE, opts |-> <<>>, _rows |-> <<>>, _field_properties |-> <<>>,
   _keys_count |-> <<>>, report_types |-> <<>>, _header_written |-> <<>>,
   _field_calc_needed |-> <<>>, _sort_required |-> <<>>,
   _already_reported |-> <<>>, report_file |-> <<>>]

\* the class, the catalog and the registry exist, no report has been made
ShareInit ==
  /\ heap = [class |-> ClassAttributes, fields |-> _fields, types |-> _types,
             reports |-> [rep \in Instances |-> NoAttributes],
             lists |-> <<>>, props |-> <<>>]
  /\ acting = ""
  /\ ncalls = 0

Init ==
  /\ pc = "new"
  /\ args = [output_fields |-> <<>>, sort_keys |-> <<>>,
             opts |-> BoomReportOpts(TRUE, TRUE)]
  /\ br = BoomReport(BoomReportOpts(TRUE, TRUE))
  /\ hist = <<>>
  /\ submitted = <<>>
  /\ TypesInit
  /\ EntriesInit
  /\ ShareInit

Construct ==
  /\ pc = "new"
  /\ \E output_fields \in OutputFieldsSet, sort_keys \in SortKeysSet,
        opts \in OptsSet :
       \E r \in {__init__(output_fields, opts, sort_keys)} :
          /\ args' = [output_fields |-> output_fields, sort_keys |-> sort_keys,
                      opts |-> opts]
          /\ br' = r
          /\ pc' = IF r.exc = "" THEN "ready" ELSE "failed"
  /\ UNCHANGED <<hist, submitted, typeVars, entryVars, shareVars>>

Called(op, obj, r) ==
  Append(hist, [op |-> op, obj |-> obj, exc |-> r.exc,
                lines |-> Len(r.report_file) - Len(br.report_file)])

ReportObject ==
  /\ pc = "ready"
  /\ Len(hist) < MaxCalls
  /\ \E obj \in Objects, m \in {Raise(br, "")} :
       \E r \in report_object(m, obj) :
         /\ br' = r
         /\ hist' = Called("report_object", obj, r)
         /\ submitted' = IF Len(r._rows) > Len(br._rows)
                         THEN Append(submitted, obj) ELSE submitted
  /\ UNCHANGED <<pc, args, typeVars, entryVars, shareVars>>

ReportOutput ==
  /\ pc = "ready"
  /\ Len(hist) < MaxCalls
  /\ \E m \in {Raise(br, "")} :
       \E r \in report_output(m) :
         /\ br' = r
         /\ hist' = Called("report_output", None, r)
  /\ UNCHANGED <<pc, args, submitted, typeVars, entryVars, shareVars>>

Next == Construct \/ ReportObject \/ ReportOutput

Spec == Init /\ [][Next]_vars

(***************************************************************************)
(* The claims.                                                             *)
(***************************************************************************)
\* the last call made on the report, and the lines it wrote to report_file
Last == hist[Len(hist)]

LastLines ==
  SubSeq(br.report_file, Len(br.report_file) - Last.lines + 1,
         Len(br.report_file))

\* the ids of the rows that the row lines among lines render, in order
RowIds(lines) ==
  LET rows == SelectSeq(lines, LAMBDA l : l.kind = "row")
  IN [i \in 1..Len(rows) |-> rows[i].id]

\* the buffered row with the given id
RowOf(id) == br._rows[CHOOSE r \in 1..Len(br._rows) : br._rows[r].id = id]

NonEmpty(words) == SelectSeq(words, LAMBDA w : w # <<>>)

\* the names selected by the field-selection string of the construction
SelectedWords(a) ==
  NonEmpty(split(IF a.output_fields = <<>>
                 THEN join([i \in 1..Len(_fields) |-> _fields[i].name])
                 ELSE a.output_fields))

\* the names of the sort keys of the construction, their signs removed
KeyNames(a) ==
  LET words == IF a.sort_keys = <<>> THEN <<>> ELSE NonEmpty(split(a.sort_keys))
  IN [i \in 1..Len(words) |->
        IF Head(words[i]) \in {"+", "-"} THEN Tail(words[i]) ELSE words[i]]

Range(s) == {s[i] : i \in 1..Len(s)}

Known(name) ==
  \E f \in Range(_implicit_fields) \cup Range(_fields) : f.name = name

HasUnknownName(a) ==
  \E w \in Range(SelectedWords(a)) \cup Range(KeyNames(a)) : ~ Known(w)

KeyNotSelected(a) ==
  \E w \in Range(KeyNames(a)) : Known(w) /\ w \notin Range(SelectedWords(a))

HelpSelected(a) == _special_field_help_name \in Range(SelectedWords(a))

\* the name of the catalog field that the field properties fp were copied for
NameOf(fp) ==
  IF fp.implicit THEN At(_implicit_fields, fp.field_num).name
  ELSE At(_fields, fp.field_num).name

\* C1: on a buffered report, a report_output call that follows a completed
\* report_output call writes nothing to report_file and leaves the report
\* as it was.
C1_SecondOutputIsNoOp ==
  [][(/\ pc = "ready"
      /\ args.opts.buffered
      /\ hist # <<>>
      /\ Last.op = "report_output"
      /\ Last.exc = ""
      /\ hist' # hist
      /\ hist'[Len(hist')].op = "report_output")
     => br' = br]_vars

\* C2: with buffered output disabled, after n report_object calls that all
\* succeeded report_file holds exactly n row lines, the rows 1..n in the
\* order of their submission, none of them twice.
C2_UnbufferedOneLinePerObject ==
  (/\ pc = "ready"
   /\ ~ args.opts.buffered
   /\ \A i \in 1..Len(hist) : hist[i].op = "report_object" /\ hist[i].exc = "")
  => RowIds(br.report_file) = [i \in 1..Len(hist) |-> i]

\* the report sorts on one key, a numeric field
SingleNumericKey ==
  /\ br._keys_count = 1
  /\ Cardinality({i \in 1..Len(br._field_properties) :
                    br._field_properties[i].sort_key}) = 1
  /\ \A i \in 1..Len(br._field_properties) :
       br._field_properties[i].sort_key
         => br._field_properties[i].dtype = REP_NUM

\* the raw value of the numeric field n of the object submitted as row id
KeyRaw(id) == submitted[id].be.n.n

\* C3: on a buffered report with a single sort key on a numeric field,
\* report_output writes all rows, in non-decreasing order of the raw
\* numeric value for an ascending key and in non-increasing order for a
\* descending one.
C3_SingleNumericKeyOrder ==
  (/\ pc = "ready"
   /\ args.opts.buffered
   /\ SingleNumericKey
   /\ hist # <<>>
   /\ Last.op = "report_output")
  => /\ Last.exc = ""
     /\ Len(RowIds(LastLines)) = Len(br._rows)
     /\ \A i, j \in 1..Len(RowIds(LastLines)) :
          i < j =>
            IF \E k \in 1..Len(br._field_properties) :
                 /\ br._field_properties[k].sort_key
                 /\ br._field_properties[k].sort_dir = ASCENDING
            THEN KeyRaw(RowIds(LastLines)[i]) <= KeyRaw(RowIds(LastLines)[j])
            ELSE KeyRaw(RowIds(LastLines)[i]) >= KeyRaw(RowIds(LastLines)[j])

\* two rows have equal sort values in every field declared a sort key
KeysEqual(row_a, row_b) ==
  \A i \in 1..Len(br._field_properties) :
    br._field_properties[i].sort_key
      => ValEq(row_a._fields[i].sort_value, row_b._fields[i].sort_value)

\* C4: among the row lines a call writes, any two rows that are equal on
\* every declared sort key (all rows, when none is declared) are in the
\* order in which report_object appended them.
C4_StableOrder ==
  (pc = "ready" /\ hist # <<>> /\ Last.exc = "")
  => \A i, j \in 1..Len(RowIds(LastLines)) :
       (/\ i < j
        /\ KeysEqual(RowOf(RowIds(LastLines)[i]), RowOf(RowIds(LastLines)[j])))
       => RowIds(LastLines)[i] < RowIds(LastLines)[j]

\* C4 witness: a buffered report with a sort key has written, in one
\* report_output call, two rows that are equal on the key
C4_Witness ==
  /\ pc = "ready"
  /\ args.opts.buffered
  /\ br._keys_count >= 1
  /\ hist # <<>>
  /\ Last.op = "report_output"
  /\ Last.exc = ""
  /\ \E i, j \in 1..Len(RowIds(LastLines)) :
       /\ i < j
       /\ KeysEqual(RowOf(RowIds(LastLines)[i]), RowOf(RowIds(LastLines)[j]))

\* C5: after the width resolution of a completed output, in every selected
\* hash-typed column two rows whose values cut to the column's width are
\* the same have the same full value.
C5_HashColumnsUnique ==
  (/\ pc = "ready"
   /\ hist # <<>>
   /\ Last.exc = ""
   /\ (Last.op = "report_output" \/ ~ args.opts.buffered))
  => \A i \in 1..Len(br._field_properties) :
       (br._field_properties[i].dtype = REP_SHA
          /\ ~ br._field_properties[i].hidden)
       => \A a, b \in 1..Len(br._rows) :
            Prefix(br._rows[a]._fields[i].report_string,
                   br._field_properties[i].width)
              = Prefix(br._rows[b]._fields[i].report_string,
                       br._field_properties[i].width)
            => br._rows[a]._fields[i].report_string
                 = br._rows[b]._fields[i].report_string

\* C6: a construction whose field-selection or sort-key string holds an
\* unknown name fails with ValueError, after a line for every field of the
\* catalog has been printed.
C6_UnknownNamePrintsCatalog ==
  (pc # "new" /\ HasUnknownName(args))
  => /\ pc = "failed"
     /\ br.exc = "ValueError"
     /\ \A f \in Range(_fields) :
          \E k \in 1..Len(br.stdout) :
            br.stdout[k].k = "field" /\ br.stdout[k].name = f.name

\* C7: a construction whose sort keys name a known field outside the
\* selection succeeds, and the field list holds that field hidden and as a
\* sort key.
C7_UnselectedKeyIsHidden ==
  (/\ pc # "new"
   /\ ~ HasUnknownName(args)
   /\ ~ HelpSelected(args)
   /\ KeyNotSelected(args))
  => /\ pc = "ready"
     /\ \A w \in Range(KeyNames(args)) \ Range(SelectedWords(args)) :
          \E i \in 1..Len(br._field_properties) :
            /\ NameOf(br._field_properties[i]) = w
            /\ br._field_properties[i].hidden
            /\ br._field_properties[i].sort_key

\* C8: a construction whose selection holds "help" succeeds, leaves the
\* report in introspection mode and prints the implicit and the caller
\* catalog, each group under its heading and banner, each field with its
\* datatype.
C8_HelpPrintsCatalog ==
  (/\ pc # "new"
   /\ HelpSelected(args)
   /\ ~ HasUnknownName(args)
   /\ ~ KeyNotSelected(args))
  => /\ pc = "ready"
     /\ br._already_reported
     /\ Len(br.stdout) >= Len(display_lines(_implicit_fields \o _fields, "", TRUE))
     /\ SubSeq(br.stdout, 1,
               Len(display_lines(_implicit_fields \o _fields, "", TRUE)))
          = display_lines(_implicit_fields \o _fields, "", TRUE)

\* C9: a report whose selection holds "help" is in introspection mode, and
\* the report_object and report_output calls made on it are no-ops: the
\* row buffer stays empty, the widths stay the initial ones and nothing is
\* written to report_file.
C9_HelpModeCallsAreNoOps ==
  (/\ pc # "new"
   /\ HelpSelected(args)
   /\ ~ HasUnknownName(args)
   /\ ~ KeyNotSelected(args))
  => /\ pc = "ready"
     /\ br._already_reported
     /\ br._rows = <<>>
     /\ br.report_file = <<>>
     /\ \A i \in 1..Len(hist) : hist[i].lines = 0
     /\ \A i \in 1..Len(br._field_properties) :
          br._field_properties[i].width = br._field_properties[i].initial_width

\* C10 as claimed: after construction no two entries of the field list
\* refer to the same catalog field.
C10_OneEntryPerName ==
  pc = "ready"
  => \A i, j \in 1..Len(br._field_properties) :
       i # j => \/ br._field_properties[i].field_num
                     # br._field_properties[j].field_num
                \/ br._field_properties[i].implicit
                     # br._field_properties[j].implicit

\* C10 as amended: after a construction that succeeded the field list
\* holds one entry per non-empty token of the field-selection string, in
\* the order of the tokens, each for the caller catalog field the token
\* names; a name given twice has two entries.
C10_OneEntryPerToken ==
  pc = "ready"
  => /\ Len(br._field_properties) = Len(SelectedWords(args))
     /\ \A i \in 1..Len(br._field_properties) :
          /\ ~ br._field_properties[i].implicit
          /\ NameOf(br._field_properties[i]) = SelectedWords(args)[i]

\* C10 witness: a report constructed from a selection that repeats a name
C10_Witness ==
  /\ pc = "ready"
  /\ \E i, j \in 1..Len(SelectedWords(args)) :
       i # j /\ SelectedWords(args)[i] = SelectedWords(args)[j]

\* a string with the empty tokens of its comma-separated list removed
WithoutEmptyTokens(string) == join(NonEmpty(split(string)))

\* every name of the field selection is a field of the caller catalog
SelectsCatalogNames(a) ==
  \A w \in Range(SelectedWords(a)) : \E f \in Range(_fields) : f.name = w

\* C11 as claimed: a report constructed from a selection of catalog names
\* and commas is the report constructed from the selection and the sort
\* keys with their empty tokens removed, a selection of commas only
\* included.
C11_EmptyTokensSkipped ==
  (pc # "new" /\ hist = <<>> /\ SelectsCatalogNames(args))
  => br = __init__(WithoutEmptyTokens(args.output_fields), args.opts,
                   WithoutEmptyTokens(args.sort_keys))

\* C11 as amended: the same for every selection that is empty or holds at
\* least one name; a selection of commas only is left out (it resolves to
\* the empty field list, the empty string to the whole catalog).
C11_EmptyTokensSkippedWithName ==
  (/\ pc # "new"
   /\ hist = <<>>
   /\ SelectsCatalogNames(args)
   /\ (args.output_fields = <<>>
         \/ NonEmpty(split(args.output_fields)) # <<>>))
  => br = __init__(WithoutEmptyTokens(args.output_fields), args.opts,
                   WithoutEmptyTokens(args.sort_keys))

\* C11 witness: a report constructed from a selection and from sort keys
\* that both hold empty tokens
C11_Witness ==
  /\ pc = "ready"
  /\ Len(br._field_properties) = 2
  /\ br._keys_count = 1
  /\ WithoutEmptyTokens(args.output_fields) # args.output_fields
  /\ WithoutEmptyTokens(args.sort_keys) # args.sort_keys

\* the field list holds the caller catalog, entry by entry and in its order
HoldsWholeCatalog ==
  /\ Len(br._field_properties) = Len(_fields)
  /\ \A i \in 1..Len(br._field_properties) :
       /\ br._field_properties[i].field_num = i - 1
       /\ ~ br._field_properties[i].implicit

\* C12 as claimed: a construction with an empty field selection succeeds
\* unless a sort key is unknown, and its field list is the whole caller
\* catalog in declaration order with no field marked as a sort key.
C12_DefaultSelection ==
  (pc # "new" /\ args.output_fields = <<>> /\ ~ HasUnknownName(args))
  => /\ pc = "ready"
     /\ HoldsWholeCatalog
     /\ \A i \in 1..Len(br._field_properties) :
          ~ br._field_properties[i].sort_key

\* C12 as amended: the same, with exactly the fields that the sort-key
\* string names marked as sort keys, so none when there are no sort keys.
C12_DefaultSelectionWithKeys ==
  (pc # "new" /\ args.output_fields = <<>> /\ ~ HasUnknownName(args))
  => /\ pc = "ready"
     /\ HoldsWholeCatalog
     /\ \A i \in 1..Len(br._field_properties) :
          br._field_properties[i].sort_key
            <=> NameOf(br._field_properties[i]) \in Range(KeyNames(args))

\* C12 witness: a report constructed from the empty selection and a sort
\* key
C12_Witness ==
  /\ pc = "ready"
  /\ args.output_fields = <<>>
  /\ Len(br._field_properties) = Len(_fields)
  /\ \E i \in 1..Len(br._field_properties) : br._field_properties[i].sort_key

\* the sort-key string keys with a '+' put before every unsigned token
PlusSigned(keys) ==
  join([i \in 1..Len(split(keys)) |->
          IF split(keys)[i] = <<>> \/ Head(split(keys)[i]) \in {"+", "-"}
          THEN split(keys)[i]
          ELSE <<"+">> \o split(keys)[i]])

\* the direction that the last token of the sort keys naming the field asks
\* for
DirectionOf(a, name) ==
  LET words == NonEmpty(split(a.sort_keys))
      last == CHOOSE i \in 1..Len(words) :
                /\ KeyNames(a)[i] = name
                /\ \A j \in (i + 1)..Len(words) : KeyNames(a)[j] # name
  IN IF Head(words[last]) = "-" THEN DESCENDING ELSE ASCENDING

\* C13: the report constructed from a sort-key string is the report
\* constructed from the string with '+' before its unsigned tokens, and a
\* field that is a sort key is descending when its token has a '-' and
\* ascending otherwise.
C13_PlusIsDefault ==
  (pc # "new" /\ hist = <<>>)
  => /\ br = __init__(args.output_fields, args.opts, PlusSigned(args.sort_keys))
     /\ pc = "ready"
        => \A i \in 1..Len(br._field_properties) :
             br._field_properties[i].sort_key
               => br._field_properties[i].sort_dir
                    = DirectionOf(args, NameOf(br._field_properties[i]))

\* C13 witness: a report constructed with an unsigned sort key
C13_Witness ==
  /\ pc = "ready"
  /\ br._keys_count >= 1
  /\ PlusSigned(args.sort_keys) # args.sort_keys
  /\ \E i \in 1..Len(br._field_properties) :
       /\ br._field_properties[i].sort_key
       /\ br._field_properties[i].sort_dir = ASCENDING

\* obj is an object whose extraction yields no value for the object type
\* of some entry of the field list
LacksData(obj) ==
  /\ ~ obj.none
  /\ \E i \in 1..Len(br._field_properties) :
       data_fn(br._field_properties[i].objtype, obj).none

\* C14: a report_object call with an object for which the extraction
\* function of the type of some entry of the field list yields no value
\* raises ValueError and leaves the report as it was: no row is appended
\* and nothing is written to report_file.
C14_NoDataFails ==
  [][(/\ hist' # hist
      /\ hist'[Len(hist')].op = "report_object"
      /\ LacksData(hist'[Len(hist')].obj))
     => /\ hist'[Len(hist')].exc = "ValueError"
        /\ br'._rows = br._rows
        /\ br'.report_file = br.report_file
        /\ br' = [br EXCEPT !.exc = "ValueError"]]_vars

\* C14 witness: report_object has failed for an object without data on a
\* report that holds rows
C14_Witness ==
  /\ pc = "ready"
  /\ hist # <<>>
  /\ Last.op = "report_object"
  /\ LacksData(Last.obj)
  /\ Last.exc = "ValueError"
  /\ br._rows # <<>>

\* C15: whatever calls were made on a report, report_file holds at most
\* one header line, none when headings are disabled, and when headings are
\* enabled the header is the first line, before every row line.
C15_HeaderOnceAndFirst ==
  pc = "ready"
  => /\ \A k \in 1..Len(br.report_file) :
          br.report_file[k].kind = "header" => (k = 1 /\ br.opts.headings)
     /\ (br.opts.headings /\ br.report_file # <<>>)
          => br.report_file[1].kind = "header"

\* C15 witness: with headings enabled, two calls have written row lines
\* and the header was written once
C15_Witness ==
  /\ pc = "ready"
  /\ br.opts.headings
  /\ Cardinality({i \in 1..Len(hist) : hist[i].lines > 0}) >= 2
  /\ Cardinality({k \in 1..Len(br.report_file) :
                    br.report_file[k].kind = "header"}) = 1
  /\ Len(RowIds(br.report_file)) >= 2

\* the number of quote characters in the string
RECURSIVE Quotes(_)
Quotes(string) ==
  IF string = <<>> THEN 0
  ELSE (IF Head(string) = STANDARD_QUOTE THEN 1 ELSE 0) + Quotes(Tail(string))

\* the cell of field i of the buffered row id as report_output renders it
Cell(id, i) == _output_field(br, RowOf(id)._fields[i], br._field_properties[i])

\* what a cell starts with under a field-name prefix: the prefix, the
\* upper-cased field name and '='
CellPrefix(i) ==
  br.opts.field_name_prefix \o upper(NameOf(br._field_properties[i]))
    \o <<STANDARD_PAIR>>

\* C16: in every row line that a completed call writes, each cell holds
\* two quote characters when quoting is enabled and none when it is
\* disabled, and under a field-name prefix it starts with the prefix, the
\* upper-cased field name and '='.
C16_QuotingBalanced ==
  (pc = "ready" /\ hist # <<>> /\ Last.exc = "")
  => \A k \in 1..Len(LastLines) :
       LastLines[k].kind = "row"
       => /\ LastLines[k].text = RowLineFrom(br, RowOf(LastLines[k].id), 1, FALSE)
          /\ \A i \in 1..Len(br._field_properties) :
               /\ Quotes(Cell(LastLines[k].id, i))
                    = IF br.opts.unquoted THEN 0 ELSE 2
               /\ br.opts.field_name_prefix # <<>>
                    => SubSeq(Cell(LastLines[k].id, i), 1, Len(CellPrefix(i)))
                         = CellPrefix(i)

(***************************************************************************)
(* Object types.  A caller constructs its BoomReportObjType objects and    *)
(* puts the ones it got into the list that it passes to BoomReport as      *)
(* `types`.  The tag objtype is an integer here; desc and data_fn are ""   *)
(* where the caller passes an empty string or None.                        *)
(***************************************************************************)
\* BoomReportObjType.__init__: the exception raised and the object made
BoomReportObjType__init__(objtype, desc, prefix, fn) ==
  IF objtype = 0 \/ objtype < 0
  THEN [exc |-> "ValueError", self |-> BoomReportObjType(-1, "", "", "")]
  ELSE IF desc = ""
  THEN [exc |-> "ValueError", self |-> BoomReportObjType(-1, "", "", "")]
  ELSE IF fn = ""
  THEN [exc |-> "ValueError", self |-> BoomReportObjType(-1, "", "", "")]
  ELSE [exc |-> "", self |-> BoomReportObjType(objtype, desc, prefix, fn)]

\* the tags, descriptions and data functions that callers pass
ObjtypeSet == {-2, -1, 0, 1, 2, 3, 4, 6}
DescSet == {"", "Boot loader entries"}
DataFnSet == {"", "be"}

\* the caller constructs an object type and appends it to its list
RegisterType ==
  /\ Len(types) < MaxTypes
  /\ \E objtype \in ObjtypeSet, desc \in DescSet, fn \in DataFnSet :
       \E r \in {BoomReportObjType__init__(objtype, desc, "", fn)} :
         /\ type_call' = [made |-> TRUE, objtype |-> objtype, desc |-> desc,
                          data_fn |-> fn, exc |-> r.exc]
         /\ types' = IF r.exc = "" THEN Append(types, r.self) ELSE types
  /\ UNCHANGED <<reportVars, entryVars, shareVars>>

NextTypes == RegisterType

SpecTypes == Init /\ [][NextTypes]_vars

\* n is a positive power of two
IsPowerOfTwo(n) == \E k \in 0..30 : n = 2 ^ k

\* C18: every object type that a construction returned has a tag that is a
\* positive power of two, and a construction with any other tag raises
\* ValueError.
C18_TagsArePowersOfTwo ==
  /\ \A i \in 1..Len(types) : IsPowerOfTwo(types[i].objtype)
  /\ (type_call.made /\ ~ IsPowerOfTwo(type_call.objtype))
       => type_call.exc = "ValueError"

(***************************************************************************)
(* The command API for boot entries (boom/command.py): create_entry,       *)
(* clone_entry and delete_entries over the entries of the loader           *)
(* directory.  BootEntry, Selection, find_entries, write_entry and         *)
(* delete_entry belong to boom.bootloader and are modelled by what         *)
(* command.py relies on: an entry's boot_id is a digest of its content,    *)
(* find_entries returns the entries that match every criterion set in the  *)
(* selection, write_entry adds the entry to the directory and delete_entry *)
(* removes it.  A call yields [exc, be, nr, entries]: the exception        *)
(* raised, the entry or the number returned and the directory afterwards.  *)
(***************************************************************************)
\* be.boot_id: the digest of the content of the entry
boot_id(be) ==
  <<be.title, be.machine_id, be.bp.version, be.bp.root_device,
    be.bp.lvm_root_lv, be.bp.btrfs_subvol_path, be.bp.btrfs_subvol_id,
    be._osp>>

\* Selection(boot_id=..., title=...): <<>> and "" for criteria not set
Selection(id, title) == [boot_id |-> id, title |-> title]

\* find_entries(selection) on the directory dir
find_entries(dir, selection) ==
  SelectSeq(dir, LAMBDA be :
    /\ selection.boot_id # <<>> => boot_id(be) = selection.boot_id
    /\ selection.title # "" => be.title = selection.title)

\* be.write_entry()
write_entry(dir, be) == Append(dir, be)

\* the directory after be.delete_entry() for every be of bes
delete_entry(dir, bes) ==
  SelectSeq(dir, LAMBDA be : \A i \in 1..Len(bes) : bes[i] # be)

Failed(dir, e) == [exc |-> e, be |-> NoEntry, nr |-> 0, entries |-> dir]

\* create_entry as it would be without the test for an existing entry
create_entry_unchecked(dir, a) ==
  IF a.title = "" THEN Failed(dir, "ValueError")
  ELSE IF a.version = "" THEN Failed(dir, "ValueError")
  ELSE IF a.machine_id = "" THEN Failed(dir, "ValueError")
  ELSE IF a.root_device = "" THEN Failed(dir, "ValueError")
  ELSE IF a.osprofile = "" THEN Failed(dir, "ValueError")
  ELSE LET bp == BootParams(a.version, a.root_device, a.lvm_root_lv,
                            a.btrfs_subvol_path, a.btrfs_subvol_id)
           be == BootEntry(a.title, a.machine_id, a.osprofile, bp)
       IN [exc |-> "", be |-> be, nr |-> 0, entries |-> write_entry(dir, be)]

\* create_entry(title, version, machine_id, root_device, lvm_root_lv,
\* btrfs_subvol_path, btrfs_subvol_id, osprofile)
create_entry(dir, a) ==
  IF a.title = "" THEN Failed(dir, "ValueError")
  ELSE IF a.version = "" THEN Failed(dir, "ValueError")
  ELSE IF a.machine_id = "" THEN Failed(dir, "ValueError")
  ELSE IF a.root_device = "" THEN Failed(dir, "ValueError")
  ELSE IF a.osprofile = "" THEN Failed(dir, "ValueError")
  ELSE LET bp == BootParams(a.version, a.root_device, a.lvm_root_lv,
                            a.btrfs_subvol_path, a.btrfs_subvol_id)
           be == BootEntry(a.title, a.machine_id, a.osprofile, bp)
       IN IF find_entries(dir, Selection(boot_id(be), "")) # <<>>
          THEN Failed(dir, "ValueError")
          ELSE [exc |-> "", be |-> be, nr |-> 0,
                entries |-> write_entry(dir, be)]

\* delete_entries(selection)
delete_entries(dir, selection) ==
  LET bes == find_entries(dir, selection)
  IN IF bes = <<>> THEN Failed(dir, "IndexError")
     ELSE [exc |-> "", be |-> NoEntry, nr |-> Len(bes),
           entries |-> delete_entry(dir, bes)]

\* a if it is set, else b
Or(a, b) == IF a # "" THEN a ELSE b

\* clone_entry(selection, title, version, machine_id, root_device,
\* lvm_root_lv, btrfs_subvol_path, btrfs_subvol_id, osprofile)
clone_entry(dir, selection, a) ==
  IF selection.boot_id = <<>> THEN Failed(dir, "ValueError")
  ELSE IF \A v \in {a.title, a.version, a.machine_id, a.root_device,
                    a.lvm_root_lv, a.btrfs_subvol_path, a.btrfs_subvol_id,
                    a.osprofile} : v = ""
  THEN Failed(dir, "ValueError")
  ELSE LET bes == find_entries(dir, selection)
       IN IF Len(bes) > 1 THEN Failed(dir, "ValueError")
          ELSE IF bes = <<>> THEN Failed(dir, "IndexError")
          ELSE LET be == bes[1]
                   bp == BootParams(Or(a.version, be.version),
                                    Or(a.root_device, be.bp.root_device),
                                    Or(a.lvm_root_lv, be.bp.lvm_root_lv),
                                    Or(a.btrfs_subvol_path,
                                       be.bp.btrfs_subvol_path),
                                    Or(a.btrfs_subvol_id,
                                       be.bp.btrfs_subvol_id))
                   clone_be == BootEntry(Or(a.title, be.title),
                                         Or(a.machine_id, be.machine_id),
                                         Or(a.osprofile, be._osp), bp)
               IN IF find_entries(dir, Selection(boot_id(clone_be), "")) # <<>>
                  THEN Failed(dir, "ValueError")
                  ELSE [exc |-> "", be |-> be, nr |-> 0,
                        entries |-> write_entry(dir, clone_be)]

\* the arguments that callers pass: complete ones with two titles and an
\* optional logical volume, ones that lack one required argument, and the
\* sparse ones of a clone, down to none at all
EntryArgsSet ==
  {CallArgs(<<>>, title, "1", "m", "/dev/sda", lvm_root_lv, "", "", "osp") :
     title \in {"A", "B"}, lvm_root_lv \in {"", "vg/lv"}}
  \cup {CallArgs(<<>>, "", "1", "m", "/dev/sda", "", "", "", "osp"),
        CallArgs(<<>>, "A", "", "m", "/dev/sda", "", "", "", "osp"),
        CallArgs(<<>>, "A", "1", "", "/dev/sda", "", "", "", "osp"),
        CallArgs(<<>>, "A", "1", "m", "", "", "", "", "osp"),
        CallArgs(<<>>, "A", "1", "m", "/dev/sda", "", "", "", "")}
  \cup {CallArgs(<<>>, title, "", "", "", lvm_root_lv, "", "", "") :
          title \in {"", "B"}, lvm_root_lv \in {"", "vg/lv"}}

\* the selections that callers pass: the boot_id of an entry of the
\* directory or of no entry, or none, and a title or none
SelectionSet ==
  {Selection(id, title) :
     id \in {boot_id(entries[i]) : i \in 1..Len(entries)}
              \cup {<<>>, boot_id(NoEntry)},
     title \in {"", "A"}}

Returned(op, a, r) ==
  [op |-> op, exc |-> r.exc, be |-> r.be, nr |-> r.nr, args |-> a]

CreateEntry ==
  /\ Len(entries) < MaxEntries
  /\ \E a \in EntryArgsSet :
       \E r \in {create_entry(entries, a)} :
         /\ entries' = r.entries
         /\ ret' = Returned("create_entry", a, r)
  /\ UNCHANGED <<reportVars, typeVars, shareVars>>

CloneEntry ==
  /\ Len(entries) < MaxEntries
  /\ \E selection \in SelectionSet, a \in EntryArgsSet :
       \E r \in {clone_entry(entries, selection, a)} :
         /\ entries' = r.entries
         /\ ret' = Returned("clone_entry",
                            [a EXCEPT !.boot_id = selection.boot_id], r)
  /\ UNCHANGED <<reportVars, typeVars, shareVars>>

DeleteEntries ==
  /\ \E selection \in SelectionSet :
       \E r \in {delete_entries(entries, selection)} :
         /\ entries' = r.entries
         /\ ret' = Returned("delete_entries",
                            CallArgs(selection.boot_id, selection.title,
                                     "", "", "", "", "", "", ""), r)
  /\ UNCHANGED <<reportVars, typeVars, shareVars>>

NextEntries == CreateEntry \/ CloneEntry \/ DeleteEntries

SpecEntries == Init /\ [][NextEntries]_vars

\* C19: a clone_entry call that succeeds returns the entry that it wrote
\* to the directory, the clone, and not the entry it was cloned from.
C19_CloneReturnsNewEntry ==
  (ret.op = "clone_entry" /\ ret.exc = "")
  => /\ ret.be = entries[Len(entries)]
     /\ boot_id(ret.be) # ret.args.boot_id

\* the entry that create_entry makes from its arguments
EntryOf(a) ==
  BootEntry(a.title, a.machine_id, a.osprofile,
            BootParams(a.version, a.root_device, a.lvm_root_lv,
                       a.btrfs_subvol_path, a.btrfs_subvol_id))

\* a required argument of create_entry is missing
MissingRequired(a) ==
  "" \in {a.title, a.version, a.machine_id, a.root_device, a.osprofile}

\* no two entries of the directory have the same boot_id
UniqueBootIds(dir) ==
  \A i, j \in 1..Len(dir) : i # j => boot_id(dir[i]) # boot_id(dir[j])

\* C20: no two entries of the directory ever share a boot_id; a call that
\* raises leaves the directory as it was; create_entry raises ValueError
\* when a required argument is missing or an entry with the boot_id of the
\* new one exists, and a clone_entry that succeeds has written an entry
\* whose boot_id was not in the directory.
C20_NoDuplicateBootId ==
  [][/\ UniqueBootIds(entries')
     /\ ret'.exc # "" => entries' = entries
     /\ (/\ ret'.op = "create_entry"
         /\ (ret' # ret \/ entries' # entries)
         /\ \/ MissingRequired(ret'.args)
            \/ \E i \in 1..Len(entries) :
                 boot_id(entries[i]) = boot_id(EntryOf(ret'.args)))
        => (ret'.exc = "ValueError" /\ entries' = entries)
     /\ (ret'.op = "clone_entry" /\ ret'.exc = "" /\ entries' # entries)
        => \A i \in 1..Len(entries) :
             boot_id(entries[i]) # boot_id(entries'[Len(entries')])]_vars

\* C20 witness: create_entry has raised for an entry that is in the
\* directory, which holds that entry and another one
C20_Witness ==
  /\ ret.op = "create_entry"
  /\ ret.exc = "ValueError"
  /\ ~ MissingRequired(ret.args)
  /\ Len(entries) >= 2
  /\ \E i \in 1..Len(entries) : boot_id(entries[i]) = boot_id(EntryOf(ret.args))

(***************************************************************************)
(* Two reports that share a catalog and a registry (report.py).  A method  *)
(* sees the report through its references: View follows them, the method   *)
(* is then the one modelled above, and Store makes its assignments where   *)
(* the source makes them.                                                  *)
(***************************************************************************)
\* self.<name>: the attribute bound on the instance, else the one of the class
getattr(H, rep, name) ==
  IF H.reports[rep][name] # <<>> THEN H.reports[rep][name][1]
  ELSE H.class[name]

\* self.<name> = value binds the attribute on the instance; an assignment of
\* the value that the lookup already gives is not told from no assignment
Bound(H, rep, name, value) ==
  IF value # getattr(H, rep, name) THEN <<value>> ELSE H.reports[rep][name]

\* the report that a method called on rep works on
View(H, rep) ==
  LET fplist == H.lists[getattr(H, rep, "_field_properties")]
  IN [_field_properties |-> [k \in 1..Len(fplist) |-> H.props[fplist[k]]],
      _rows |-> H.lists[getattr(H, rep, "_rows")],
      _keys_count |-> getattr(H, rep, "_keys_count"),
      report_types |-> getattr(H, rep, "report_types"),
      _header_written |-> getattr(H, rep, "_header_written"),
      _field_calc_needed |-> getattr(H, rep, "_field_calc_needed"),
      _sort_required |-> getattr(H, rep, "_sort_required"),
      _already_reported |-> getattr(H, rep, "_already_reported"),
      opts |-> H.reports[rep].opts[1],
      exc |-> "", stdout |-> <<>>,
      report_file |-> H.reports[rep].report_file]

\* the attributes of rep after a method has left the report r
Rebound(H, rep, r) ==
  [H.reports[rep] EXCEPT
     !._keys_count = Bound(H, rep, "_keys_count", r._keys_count),
     !.report_types = Bound(H, rep, "report_types", r.report_types),
     !._header_written = Bound(H, rep, "_header_written", r._header_written),
     !._field_calc_needed =
        Bound(H, rep, "_field_calc_needed", r._field_calc_needed),
     !._sort_required = Bound(H, rep, "_sort_required", r._sort_required),
     !._already_reported =
        Bound(H, rep, "_already_reported", r._already_reported),
     !.report_file = r.report_file]

\* the heap after a method called on rep has left the report r: rows are
\* appended to and sorted in the list that self._rows refers to, widths are
\* assigned to the properties objects of self._field_properties, and the
\* flags are bound on the instance
Store(H, rep, r) ==
  LET fplist == H.lists[getattr(H, rep, "_field_properties")]
  IN [H EXCEPT
        !.reports[rep] = Rebound(H, rep, r),
        !.lists[getattr(H, rep, "_rows")] = r._rows,
        !.props = [k \in 1..Len(H.props) |->
                     IF \E i \in 1..Len(fplist) : fplist[i] = k
                     THEN r._field_properties[
                            CHOOSE i \in 1..Len(fplist) : fplist[i] = k]
                     ELSE H.props[k]]]

\* __copy_field as it would be if the properties object of a field were
\* kept and handed to every report that selects the field
CachedProps(H, fp) ==
  IF \E k \in 1..Len(H.props) : H.props[k].field_num = fp.field_num
  THEN [heap |-> H,
        ref |-> CHOOSE k \in 1..Len(H.props) :
                  H.props[k].field_num = fp.field_num]
  ELSE [heap |-> [H EXCEPT !.props = Append(@, fp)], ref |-> Len(H.props) + 1]

\* fp = BoomFieldProperties() of __copy_field: a new object holds the
\* properties fp copied from the descriptor
NewProps(H, fp) ==
  [heap |-> [H EXCEPT !.props = Append(@, fp)], ref |-> Len(H.props) + 1]

\* the properties objects of the fields fps from i on, in the order in which
\* they stand in self._field_properties
RECURSIVE NewPropsFrom(_, _, _)
NewPropsFrom(H, fps, i) ==
  IF i > Len(fps) THEN [heap |-> H, refs |-> <<>>]
  ELSE LET one == NewProps(H, fps[i])
           rest == NewPropsFrom(one.heap, fps, i + 1)
       IN [heap |-> rest.heap, refs |-> <<one.ref>> \o rest.refs]

\* the heap after __init__ has made the report r of rep: self._rows and
\* self._field_properties are bound to two new lists, every field added gets
\* its properties object, and the attributes assigned are bound
Constructed(H, rep, r) ==
  LET rows == Len(H.lists) + 1
      fplist == Len(H.lists) + 2
      bare == [H EXCEPT !.lists = H.lists \o <<r._rows, <<>>>>,
                        !.reports[rep] =
                           [Rebound(H, rep, r) EXCEPT
                              !.made = TRUE, !.opts = <<r.opts>>,
                              !._rows = <<rows>>,
                              !._field_properties = <<fplist>>]]
      made == NewPropsFrom(bare, r._field_properties, 1)
  IN [made.heap EXCEPT !.lists[fplist] = made.refs]

\* the selections, keys, options and objects of the two reports
SharedFieldsSet == {<<>>, <<"n">>}
SharedKeysSet == {<<>>, <<"-", "n">>}
SharedOptsSet == {BoomReportOpts(TRUE, TRUE), BoomReportOpts(TRUE, FALSE)}
SharedObjects ==
  {None,
   BoomReportObj(Entry(1, Sha1), Profile(<<"a">>)),
   BoomReportObj(Entry(-1, Sha3), NoData)}

ShareConstruct ==
  /\ \E rep \in Instances :
       /\ ~ heap.reports[rep].made
       /\ \E output_fields \in SharedFieldsSet, sort_keys \in SharedKeysSet,
             opts \in SharedOptsSet :
            \E r \in {__init__(output_fields, opts, sort_keys)} :
              /\ r.exc = ""
              /\ heap' = Constructed(heap, rep, r)
              /\ acting' = rep
  /\ UNCHANGED <<ncalls, reportVars, typeVars, entryVars>>

ShareReportObject ==
  /\ ncalls < MaxShared
  /\ \E rep \in Instances :
       /\ heap.reports[rep].made
       /\ \E obj \in SharedObjects, m \in {View(heap, rep)} :
            \E r \in report_object(m, obj) :
              /\ heap' = Store(heap, rep, r)
              /\ acting' = rep
  /\ ncalls' = ncalls + 1
  /\ UNCHANGED <<reportVars, typeVars, entryVars>>

ShareReportOutput ==
  /\ ncalls < MaxShared
  /\ \E rep \in Instances :
       /\ heap.reports[rep].made
       /\ \E m \in {View(heap, rep)} :
            \E r \in report_output(m) :
              /\ heap' = Store(heap, rep, r)
              /\ acting' = rep
  /\ ncalls' = ncalls + 1
  /\ UNCHANGED <<reportVars, typeVars, entryVars>>

NextShare == ShareConstruct \/ ShareReportObject \/ ShareReportOutput

SpecShare == Init /\ [][NextShare]_vars

\* C17: a call made on one of two reports built from the same catalog and
\* registry leaves the other report as it was (its rows, its field list
\* with the widths and sort keys, its flags and every attribute bound on
\* it), and leaves the class attributes, the catalog descriptors and the
\* registry unmodified
C17_InstancesShareNothing ==
  [][\A rep \in Instances, other \in Instances :
       (acting' = rep /\ other # rep /\ heap.reports[other].made)
         => /\ heap'.reports[other] = heap.reports[other]
            /\ View(heap', other) = View(heap, other)
            /\ heap'.class = heap.class
            /\ heap'.fields = heap.fields
            /\ heap'.types = heap.types]_vars

\* both reports select the same field and hold a row; report A has written
\* its header and widened the field, report B has done neither
C17_Witness ==
  /\ acting = "A"
  /\ heap.reports["A"].made /\ heap.reports["B"].made
  /\ LET a == View(heap, "A")
         b == View(heap, "B")
     IN /\ a._rows # <<>> /\ b._rows # <<>>
        /\ a._header_written /\ ~ b._header_written
        /\ \E i \in 1..Len(a._field_properties),
              j \in 1..Len(b._field_properties) :
             /\ a._field_properties[i].field_num
                  = b._field_properties[j].field_num
             /\ a._field_properties[i].width
                  > a._field_properties[i].initial_width
             /\ b._field_properties[j].width
                  = b._field_properties[j].initial_width

(***************************************************************************)
(* Repeated sort keys, several sort keys and width resolution.             *)
(***************************************************************************)
\* the sort-key string names a field more than once
RepeatsKey(a) ==
  \E i, j \in 1..Len(KeyNames(a)) : i < j /\ KeyNames(a)[i] = KeyNames(a)[j]

\* the direction that the first token of the sort keys naming the field asks
\* for
FirstDirectionOf(a, name) ==
  LET words == NonEmpty(split(a.sort_keys))
      first == CHOOSE i \in 1..Len(words) :
                 /\ KeyNames(a)[i] = name
                 /\ \A j \in 1..(i - 1) : KeyNames(a)[j] # name
  IN IF Head(words[first]) = "-" THEN DESCENDING ELSE ASCENDING

\* the sort positions of the fields that are sort keys
SortPositions(m) ==
  {m._field_properties[i].sort_posn :
     i \in {k \in 1..Len(m._field_properties) : m._field_properties[k].sort_key}}

\* C21: when the sort-key string names a field more than once, the later
\* declaration is ignored: the field keeps the direction of its first
\* declaration, the sort-key count is the number of distinct key fields, the
\* sort positions are exactly 0..count-1, and no report_output call raises.
C21_DuplicateKeyIgnored ==
  (pc = "ready" /\ RepeatsKey(args))
  => /\ br._keys_count = Cardinality(Range(KeyNames(args)))
     /\ SortPositions(br) = 0..(br._keys_count - 1)
     /\ \A i \in 1..Len(br._field_properties) :
          br._field_properties[i].sort_key
            => br._field_properties[i].sort_dir
                 = FirstDirectionOf(args, NameOf(br._field_properties[i]))
     /\ \A c \in 1..Len(hist) :
          hist[c].op = "report_output" => hist[c].exc = ""

\* the raw value that the render function of the field of fp reads from the
\* object submitted as row id
RawValue(id, fp) ==
  LET d == data_fn(fp.objtype, submitted[id])
      f == At(_fields, fp.field_num)
  IN CASE f.report_fn = "report_num" -> d.n
       [] f.report_fn = "report_sha" -> d.s
       [] OTHER -> d.t

\* the properties of the field declared as the sort key of position p
KeyAt(p) ==
  br._field_properties[CHOOSE i \in 1..Len(br._field_properties) :
                         /\ br._field_properties[i].sort_key
                         /\ br._field_properties[i].sort_posn = p]

\* row ida must be written before row idb: on the first key from position p
\* on where their raw values differ, ida has the lower value for an
\* ascending key and the higher for a descending one, numbers compared as
\* numbers and other values as strings
RECURSIVE RawBefore(_, _, _)
RawBefore(ida, idb, p) ==
  IF p >= br._keys_count THEN FALSE
  ELSE LET a == RawValue(ida, KeyAt(p))
           b == RawValue(idb, KeyAt(p))
           less(x, y) == IF KeyAt(p).dtype = REP_NUM THEN x.n < y.n
                         ELSE StrLess(x.s, y.s)
       IN IF ValEq(a, b) THEN RawBefore(ida, idb, p + 1)
          ELSE IF KeyAt(p).sort_dir = ASCENDING THEN less(a, b)
          ELSE less(b, a)

\* the sort keys name several fields, each once
SeveralKeys ==
  /\ br._keys_count >= 2
  /\ ~ RepeatsKey(args)

\* C22: with several sort keys, report_output writes all buffered rows, any
\* two of them ordered by the first key in declaration order on which their
\* raw values differ, in that key's direction and by that key's datatype.
C22_CompositeKeyOrder ==
  (/\ pc = "ready"
   /\ args.opts.buffered
   /\ SeveralKeys
   /\ hist # <<>>
   /\ Last.op = "report_output")
  => /\ Last.exc = ""
     /\ Len(RowIds(LastLines)) = Len(br._rows)
     /\ \A i, j \in 1..Len(RowIds(LastLines)) :
          i < j => ~ RawBefore(RowIds(LastLines)[j], RowIds(LastLines)[i], 0)

\* the report strings of column i of the rows of m
ColumnValues(m, i) ==
  {m._rows[r]._fields[i].report_string : r \in 1..Len(m._rows)}

\* the values cut to their first n characters are pairwise distinct
DistinctAt(shas, n) ==
  \A a, b \in shas : a # b => Prefix(a, n) # Prefix(b, n)

\* the least length from lower on at which the values are pairwise distinct
LeastDistinct(shas, lower) ==
  LET full == CHOOSE n \in {Len(s) : s \in shas} : \A s \in shas : Len(s) <= n
      most == Max(lower, full)
  IN CHOOSE n \in lower..most :
       /\ DistinctAt(shas, n)
       /\ \A k \in lower..(n - 1) : ~ DistinctAt(shas, k)

\* a call has completed and has run the width resolution on buffered rows
Resolved ==
  /\ pc = "ready"
  /\ hist' # hist
  /\ hist'[Len(hist')].exc = ""
  /\ (hist'[Len(hist')].op = "report_output" \/ ~ args.opts.buffered)
  /\ br'._rows # <<>>

\* C23: the width resolution leaves every hash-typed field with the least
\* width, from the greater of MIN_SHA_WIDTH and its width before on, at
\* which the values of its column are pairwise distinct.
C23_HashWidthIsLeastUnique ==
  [][Resolved
     => \A i \in 1..Len(br'._field_properties) :
          br'._field_properties[i].dtype = REP_SHA
            => br'._field_properties[i].width
                 = LeastDistinct(ColumnValues(br', i),
                                 Max(MIN_SHA_WIDTH,
                                     br._field_properties[i].width))]_vars

\* the entry i of the field list is not hash-typed
NonHash(i) == At(_fields, br._field_properties[i].field_num).dtype # REP_SHA

\* C24: a report_output call on a buffered report leaves every field that
\* is not hash-typed with the greater of its width before the call and the
\* length of the longest report string of its column; no call makes such a
\* width smaller, and none is below the width of the catalog descriptor.
C24_WidthIsLongest ==
  [][(pc = "ready" /\ args.opts.buffered /\ hist' # hist)
     => \A i \in 1..Len(br'._field_properties) :
          NonHash(i)
            => /\ hist'[Len(hist')].op = "report_output"
                    => br'._field_properties[i].width
                         = Max(br._field_properties[i].width, LongestIn(br', i))
               /\ br'._field_properties[i].width
                    >= br._field_properties[i].width
               /\ br'._field_properties[i].width
                    >= At(_fields, br'._field_properties[i].field_num).width]_vars

\* C24 witness: report_output on a buffered report has widened a field that
\* is not hash-typed beyond the width of its descriptor
C24_Witness ==
  /\ pc = "ready"
  /\ args.opts.buffered
  /\ hist # <<>>
  /\ Last.op = "report_output"
  /\ \E i \in 1..Len(br._field_properties) :
       /\ NonHash(i)
       /\ br._field_properties[i].width
            > At(_fields, br._field_properties[i].field_num).width
       /\ br._field_properties[i].width = LongestIn(br, i)

(***************************************************************************)
(* Unbuffered reports, rendered values and the two passes of construction. *)
(***************************************************************************)
\* C25: on a report with buffered output disabled, after any sequence of
\* report_object calls every field still has the width it was constructed
\* with.
C25_UnbufferedKeepsWidths ==
  (/\ pc = "ready"
   /\ ~ args.opts.buffered
   /\ \A c \in 1..Len(hist) : hist[c].op = "report_object")
  => \A i \in 1..Len(br._field_properties) :
       br._field_properties[i].width = br._field_properties[i].initial_width

\* C26: every field of every buffered row has a report string that is not
\* empty: report_object raises, and appends no row, when a render function
\* sets an empty report string or none.
C26_ReportStringsNotEmpty ==
  pc = "ready"
  => \A r \in 1..Len(br._rows) :
       \A i \in 1..Len(br._rows[r]._fields) :
         br._rows[r]._fields[i].report_string # <<>>

\* C27: a field rendered by report_num from the number v holds v itself as
\* its sort value and str(v) as its report string, and a field rendered by
\* report_str or report_sha holds its value as both.
C27_SortValueIsRawValue ==
  pc = "ready"
  => \A r \in 1..Len(br._rows) :
       \A i \in 1..Len(br._rows[r]._fields) :
         LET f == br._rows[r]._fields[i]
             fp == br._field_properties[i]
             raw == RawValue(br._rows[r].id, fp)
         IN /\ ValEq(f.sort_value, raw)
            /\ f.report_string
                 = IF At(_fields, fp.field_num).report_fn = "report_num"
                   THEN str(raw.n) ELSE raw.s

\* the catalog field, implicit or the caller's, with the given name
FieldNamed(name) ==
  CHOOSE f \in Range(_implicit_fields) \cup Range(_fields) : f.name = name

\* the object-type tags of the fields that the field-selection string and the
\* sort-key string of the construction name, combined by bitwise OR
TypesNamed(a) ==
  UNION {FieldNamed(w).objtype :
           w \in Range(SelectedWords(a)) \cup Range(KeyNames(a))}

\* the report of the construction at the end of its first pass, and at the
\* end of its second pass when the first has completed
AfterFirstPass(a) ==
  ParsePass([BoomReport(a.opts) EXCEPT !._sort_required = a.opts.buffered],
            IF a.output_fields = <<>>
            THEN join([i \in 1..Len(_fields) |-> _fields[i].name])
            ELSE a.output_fields,
            a.sort_keys, TRUE)

AfterSecondPass(a) ==
  ParsePass(AfterFirstPass(a),
            IF a.output_fields = <<>>
            THEN join([i \in 1..Len(_fields) |-> _fields[i].name])
            ELSE a.output_fields,
            a.sort_keys, FALSE)

\* C28: the first pass of a construction raises exactly when a name is
\* unknown; when it completes, report_types is the OR of the tags of every
\* field named in the two strings and no field properties and no sort key
\* exist yet; the second pass leaves report_types as it is, and the fields
\* and sort keys of the constructed report are those it created.
C28_TwoPasses ==
  (pc # "new" /\ hist = <<>>)
  => \E first \in {AfterFirstPass(args)} :
       /\ first.exc # "" <=> HasUnknownName(args)
       /\ first.exc # "" => br = first
       /\ first.exc = ""
            => /\ first.report_types = TypesNamed(args)
               /\ first._field_properties = <<>>
               /\ first._keys_count = 0
               /\ \E second \in {AfterSecondPass(args)} :
                    /\ second.report_types = first.report_types
                    /\ br.report_types = first.report_types
                    /\ pc = "ready"
                         => /\ br = second
                            /\ Len(br._field_properties)
                                 = Len(SelectedWords(args))
                            /\ \A w \in Range(KeyNames(args)) :
                                 \E i \in 1..Len(br._field_properties) :
                                   /\ NameOf(br._field_properties[i]) = w
                                   /\ br._field_properties[i].sort_key

\* C28 witness: a report constructed from strings that name fields of both
\* object types, one of them as a sort key
C28_Witness ==
  /\ pc = "ready"
  /\ br._keys_count >= 1
  /\ br.report_types = BitOr(BR_ENTRY, BR_PROFILE)
  /\ br._field_properties # <<>>

(***************************************************************************)
(* What the width resolution and the calls leave alone.                    *)
(***************************************************************************)
\* the field list fps with every width replaced by that of the same entry
\* of the list widths
WithWidthsOf(fps, widths) ==
  [i \in 1..Len(fps) |-> [fps[i] EXCEPT !.width = widths[i].width]]

\* the rows with their sort index left out
WithoutSortIndex(rows) ==
  [k \in 1..Len(rows) |-> [id |-> rows[k].id, _fields |-> rows[k]._fields]]

\* C29: the width resolution of lines 1015-1017, run on the report of any
\* reachable state, changes nothing but the widths of the field properties
\* and the sort index of the rows: the rows, their order, and the report
\* string and sort value of each of their fields are as before, and a
\* second run on its result leaves the widths as the first run set them.
C29_ResolutionKeepsValues ==
  pc = "ready"
  => \A m \in {Raise(br, "")} :
       \A r \in Recalculate(m) :
         /\ WithoutSortIndex(r._rows) = WithoutSortIndex(m._rows)
         /\ Len(r._field_properties) = Len(m._field_properties)
         /\ WithWidthsOf(r._field_properties, m._field_properties)
              = m._field_properties
         /\ [r EXCEPT !._rows = m._rows,
                      !._field_properties = m._field_properties] = m
         /\ \A again \in Recalculate(r) :
              again._field_properties = r._field_properties

\* C29 witness: a report holds two buffered rows and widths that the
\* resolution is about to change
C29_Witness ==
  /\ pc = "ready"
  /\ Len(br._rows) >= 2
  /\ \E r \in Recalculate(Raise(br, "")) :
       r._field_properties # br._field_properties

\* the report string that the render function of the field of fp gives for
\* the object submitted as row id
Rendered(id, fp) ==
  IF At(_fields, fp.field_num).report_fn = "report_num"
  THEN str(RawValue(id, fp).n)
  ELSE RawValue(id, fp).s

\* every buffered row holds one field per entry of the field list, the field
\* at each position rendered by the catalog field of the entry at that
\* position
RowsFollowFieldList ==
  \A r \in 1..Len(br._rows) :
    /\ Len(br._rows[r]._fields) = Len(br._field_properties)
    /\ \A i \in 1..Len(br._field_properties) :
         br._rows[r]._fields[i].report_string
           = Rendered(br._rows[r].id, br._field_properties[i])

\* C30: after every call on a constructed report, each buffered row holds
\* exactly one field per entry of the field list, in the order of the list,
\* and the field list is the one the construction left: the same entries in
\* the same order, only their widths resolved.
C30_RowsFollowFieldList ==
  [][pc = "ready"
     => /\ RowsFollowFieldList'
        /\ Len(br'._field_properties) = Len(br._field_properties)
        /\ WithWidthsOf(br'._field_properties, br._field_properties)
             = br._field_properties]_vars

\* C30 witness: a report with several fields, one of them a sort key, holds
\* two rows after an output that has sorted them and resolved the widths
C30_Witness ==
  /\ pc = "ready"
  /\ Len(br._field_properties) >= 2
  /\ br._keys_count >= 1
  /\ Len(br._rows) >= 2
  /\ hist # <<>>
  /\ Last.op = "report_output"
  /\ Last.exc = ""
  /\ br._rows[1].id > br._rows[2].id
  /\ \E i \in 1..Len(br._field_properties) :
       br._field_properties[i].width > br._field_properties[i].initial_width

====
